---- MODULE Spec2Model ----
(***************************************************************************)
(* kg-extractor: the check-create-check-delete protocol of check-create.ts *)
(* run by concurrent jobs against one graph collection, and the job        *)
(* (job.ts) from the fetch of its target through the LLM call (gemini.ts)  *)
(* and the parse (parse.ts) to its updates.  The graph service and the LLM *)
(* provider are the environment: the lookup index lags behind record       *)
(* creation, and every call may fail.                                      *)
(***************************************************************************)
EXTENDS Naturals, Integers, Sequences, FiniteSets, TLC

VARIABLES
    entities,      \* the collection: entity id -> record kept by the graph service
    deleteIssued,  \* ids for which some DELETE /entities/{id} was issued
    calls,         \* <<job, i>> -> state of the checkCreate invocation for unique[job][i]
    jobPc,         \* job -> "new" | "gemini" | "parsed" | "batch" | "built" | "done" |
                   \*        "failed" | "absent"
    operations,    \* job -> ParsedOperations
    unique,        \* job -> the deduplicated entity list given to runWithConcurrency
    concurrency,   \* job -> the ceiling runWithConcurrency was called with
    launched,      \* job -> number of items runWithConcurrency has started
    results,       \* job -> CheckCreateResult list, in completion order
    updates,       \* job -> the AdditiveUpdate list handed to fireUpdates
    posts,         \* job -> the batches posted to /updates/additive
    postStatus,    \* job -> per posted batch: "pending" | "accepted" | "error" | "rejected"
    outputs,       \* job -> the id list processJob returned
    gemini,        \* the state of one callGemini invocation
    jobText,       \* job -> text, what fetchTextContent returned, as its length
    thrown,        \* job -> the error processJob threw, "none" while it has not
    args,          \* the arguments of the one call of a pure function under study
    returned       \* what the calls of that function returned so far, oldest first

vars == <<entities, deleteIssued, calls, jobPc, operations, unique, concurrency, launched,
          results, updates, posts, postStatus, outputs, gemini, jobText, thrown, args,
          returned>>

NoArgs == [function |-> "none"]    \* no pure function is under study

-----------------------------------------------------------------------------
(* Bounds *)

NumJobs == 2        \* jobs running concurrently against the collection
MaxCreates == 2     \* create ops in one parsed LLM answer (update-builder inputs)
MaxRels == 2        \* add_relationship ops in one parsed LLM answer
MaxProps == 1       \* add_property ops in one parsed LLM answer

Jobs == 1..NumJobs
NumIds == NumJobs   \* ids the graph service hands out: every racing job creates at most one entity
NewIds == 1..NumIds
PreId == 0          \* id of an entity that was in the collection before any job ran
NoId == PreId - 1   \* "no entity": null, undefined, not yet assigned

(* Program constants *)
MAX_RETRIES == 2
LOOKUP_ONE_LIMIT == 1
LOOKUP_ALL_LIMIT == 10
CONCURRENCY == 20
UPDATE_BATCH_SIZE == 1000
MIN_TEXT_LENGTH == 50            \* text.length < 50 in processJob
MAX_TEXT_SIZE == 512000           \* 500 * 1024

-----------------------------------------------------------------------------
(* Labels are sequences of characters; normalizeLabel works on them. *)

UpperChars == {"Q"}
LowerChars == {"q", "p", "r"}
SpaceChars == {" ", "\t"}
WordChars == UpperChars \cup LowerChars \cup {"_"}

ToLowerChar(ch) == IF ch = "Q" THEN "q" ELSE ch

ToLowerCase(s) == [i \in 1..Len(s) |-> ToLowerChar(s[i])]

RECURSIVE TrimStart(_)
TrimStart(s) ==
    IF s # <<>> /\ Head(s) \in SpaceChars THEN TrimStart(Tail(s)) ELSE s

RECURSIVE TrimEnd(_)
TrimEnd(s) ==
    IF s # <<>> /\ s[Len(s)] \in SpaceChars
    THEN TrimEnd(SubSeq(s, 1, Len(s) - 1))
    ELSE s

Trim(s) == TrimEnd(TrimStart(s))

\* .replace(/[^\w\s-]/g, '')
KeepChar(ch) == ch \in WordChars \/ ch \in SpaceChars \/ ch = "-"
StripPunctuation(s) == SelectSeq(s, KeepChar)

\* Each character with whether it starts a run: a whitespace character starts one
\* when no whitespace character stands before it.
RunStarts(s) ==
    [i \in 1..Len(s) |-> [ch |-> s[i], first |-> i = 1 \/ s[i - 1] \notin SpaceChars]]

KeepRunStart(m) == m.ch \notin SpaceChars \/ m.first

\* .replace(/\s+/g, ' '): of every run of whitespace only its start stays, as " ".
CollapseWhitespace(s) ==
    LET kept == SelectSeq(RunStarts(s), KeepRunStart)
    IN [i \in 1..Len(kept) |-> IF kept[i].ch \in SpaceChars THEN " " ELSE kept[i].ch]

\* The same chain without its last .trim().
normalizeLabelUntrimmed(label) ==
    CollapseWhitespace(StripPunctuation(Trim(ToLowerCase(label))))

normalizeLabel(label) ==
    Trim(CollapseWhitespace(StripPunctuation(Trim(ToLowerCase(label)))))

-----------------------------------------------------------------------------
(* quotes.ts: texts and phrases are sequences of characters too. *)

Undefined == <<"undefined">>     \* an optional field that is not there
Null == <<"null">>               \* what extractQuote returns when it finds no quote
MAX_QUOTE_LENGTH == 500

\* text.replace(/\s+/g, ' ').trim()
normalizeWhitespace(text) == Trim(CollapseWhitespace(text))

\* createFlexiblePattern: special characters are escaped (they match themselves), a
\* run of whitespace becomes \s+, and the flag i ignores case.
RECURSIVE createFlexiblePattern(_)
createFlexiblePattern(phrase) ==
    IF phrase = <<>> THEN <<>>
    ELSE IF Head(phrase) \in SpaceChars
         THEN <<"\\s+">> \o createFlexiblePattern(TrimStart(phrase))
         ELSE <<Head(phrase)>> \o createFlexiblePattern(Tail(phrase))

\* The position after the run of whitespace that starts at pos.
RECURSIVE SkipWhitespace(_, _)
SkipWhitespace(text, pos) ==
    IF pos <= Len(text) /\ text[pos] \in SpaceChars THEN SkipWhitespace(text, pos + 1) ELSE pos

\* The position after a match of pattern that starts at pos, 0 when there is none.
\* \s+ is greedy and is always followed by a character that is no whitespace.
RECURSIVE MatchAt(_, _, _)
MatchAt(text, pos, pattern) ==
    IF pattern = <<>> THEN pos
    ELSE IF pos > Len(text) THEN 0
    ELSE IF Head(pattern) = "\\s+"
         THEN IF text[pos] \in SpaceChars
              THEN MatchAt(text, SkipWhitespace(text, pos), Tail(pattern))
              ELSE 0
         ELSE IF ToLowerChar(text[pos]) = ToLowerChar(Head(pattern))
              THEN MatchAt(text, pos + 1, Tail(pattern))
              ELSE 0

\* pattern.exec(text): the leftmost match, as the indices of JavaScript (from 0).
findPhrase(text, phrase) ==
    LET pattern == createFlexiblePattern(phrase)
        starts == {i \in 1..Len(text) : MatchAt(text, i, pattern) # 0}
    IN IF Trim(phrase) = <<>> \/ starts = {}
       THEN [found |-> FALSE, start |-> 0, end |-> 0]
       ELSE LET first == CHOOSE i \in starts : \A k \in starts : i <= k
            IN [found |-> TRUE, start |-> first - 1,
                end |-> MatchAt(text, first, pattern) - 1]

\* The same test with 500 characters already too long.
TooLongInclusive(extracted) == Len(extracted) >= MAX_QUOTE_LENGTH

\* if (extracted.length > 500) return null
TooLong(extracted) == Len(extracted) > MAX_QUOTE_LENGTH

extractQuote(text, quoteStart, quoteEnd) ==
    IF quoteStart \in {Undefined, <<>>} \/ quoteEnd \in {Undefined, <<>>} THEN Null
    ELSE IF text = <<>> THEN Null
    ELSE LET startMatch == findPhrase(text, quoteStart) IN
         IF ~startMatch.found THEN Null
         ELSE LET textAfterStart == SubSeq(text, startMatch.start + 1, Len(text))
                  endMatch == findPhrase(textAfterStart, quoteEnd)
              IN IF ~endMatch.found THEN Null
                 ELSE LET quoteEndPos == startMatch.start + endMatch.end
                          extracted == SubSeq(text, startMatch.start + 1, quoteEndPos)
                      IN IF TooLong(extracted) THEN Null
                         ELSE normalizeWhitespace(extracted)

-----------------------------------------------------------------------------
(* The graph service, as check-create.ts sees it. *)

EntityIds == DOMAIN entities

\* Entities a lookup for (label, type) must return: indexed and not deleted.
MustMatch(label, type) ==
    {e \in EntityIds : /\ entities[e].label = label
                       /\ entities[e].type = type
                       /\ entities[e].indexed
                       /\ ~entities[e].deleted}

\* Entities a lookup may return: the index may still hold a deleted entity.
MayMatch(label, type) ==
    {e \in EntityIds : /\ entities[e].label = label
                       /\ entities[e].type = type
                       /\ entities[e].indexed}

Min(a, b) == IF a < b THEN a ELSE b

\* All orderings of a finite set, as sequences.
Perms(S) ==
    {s \in [1..Cardinality(S) -> S] : \A i, k \in 1..Cardinality(S) : s[i] = s[k] => i = k}

\* The entity lists a lookup with the given limit can answer with.
LookupResponses(label, type, limit) ==
    UNION {UNION {Perms(T) : T \in {U \in SUBSET S : Cardinality(U) = Min(limit, Cardinality(S))}}
           : S \in {V \in SUBSET MayMatch(label, type) : MustMatch(label, type) \subseteq V}}

LatestCreatedAt ==
    IF EntityIds = {} THEN 0
    ELSE CHOOSE t \in {entities[e].created_at : e \in EntityIds} :
             \A e \in EntityIds : entities[e].created_at <= t

-----------------------------------------------------------------------------
(* check-create.ts *)

\* Mutant of lookupByLabel: the match in the response is never read.
lookupByLabelNull(error, resp) == NoId

\* lookupByLabel: an error or an empty list is "not found".
lookupByLabel(error, resp) ==
    IF error \/ Len(resp) = 0 THEN NoId ELSE resp[1]

\* Mutant of lookupAllByLabel: the error is not tested, the list is read anyway.
lookupAllByLabelUnchecked(error, resp) == resp

\* lookupAllByLabel: an error is an empty list.
lookupAllByLabel(error, resp) ==
    IF error THEN <<>> ELSE resp

\* Mutant of deleteEntity: a failed DELETE throws.
deleteEntityThrows(error) == IF error THEN "thrown" ELSE "returned"

\* deleteEntity: an error is logged, the function returns either way.
deleteEntity(error) == "returned"

\* Mutant of Compare: no tie-break by id.
CompareCreatedAtOnly(a, b) ==
    IF entities[a].created_at < entities[b].created_at THEN -1
    ELSE IF entities[a].created_at > entities[b].created_at THEN 1
    ELSE 0

\* a.created_at.localeCompare(b.created_at) || a.id.localeCompare(b.id)
Compare(a, b) ==
    IF entities[a].created_at < entities[b].created_at THEN -1
    ELSE IF entities[a].created_at > entities[b].created_at THEN 1
    ELSE IF a < b THEN -1
    ELSE IF a > b THEN 1
    ELSE 0

\* Array.prototype.sort with the comparator above (stable insertion).
RECURSIVE Insert(_, _)
Insert(x, sorted) ==
    IF sorted = <<>> THEN <<x>>
    ELSE IF Compare(x, Head(sorted)) < 0 THEN <<x>> \o sorted
    ELSE <<Head(sorted)>> \o Insert(x, Tail(sorted))

RECURSIVE SortMatches(_)
SortMatches(allMatches) ==
    IF allMatches = <<>> THEN <<>>
    ELSE Insert(allMatches[Len(allMatches)],
                SortMatches(SubSeq(allMatches, 1, Len(allMatches) - 1)))

LOOKUP_DELAY_MS == 100    \* await delay(100, 100) before the first Lookup-N
RETRY_DELAY_MS == 150     \* await delay(150, 100) before each repeated Lookup-N

\* allMatches.length === 1 && allMatches[0].id === created.id
OnlyOwn(allMatches, createdId) == allMatches = <<createdId>>

\* The same condition letting the loop run once more.
ShouldRetryOnceMore(retry, allMatches, createdId) ==
    retry <= MAX_RETRIES /\ Len(allMatches) = 1 /\ allMatches[1] = createdId

\* The retry condition of the Lookup-N loop.
ShouldRetry(retry, allMatches, createdId) ==
    retry < MAX_RETRIES /\ Len(allMatches) = 1 /\ allMatches[1] = createdId

\* The loser test: more than one match and the first after sorting is not ours.
LostRace(allMatches, createdId) ==
    Len(allMatches) > 1 /\ SortMatches(allMatches)[1] # createdId

CheckCreateResult(entityId, isNew, label, type) ==
    [entityId |-> entityId, isNew |-> isNew, label |-> label, type |-> type]

\* Mutant of StoredLabel: the entity is created under the label as spelled.
StoredLabelOriginal(call) == call.label

\* The label createEntity is called with: properties.label of POST /entities.
StoredLabel(call) == call.normalizedLabel

NewCall(entity) ==
    [pc |-> "lookup1",
     label |-> entity.label,
     type |-> entity.type,
     normalizedLabel |-> normalizeLabel(entity.label),
     answer1 |-> NoId,      \* what the service answered to Lookup-1 (NoId: nothing or an error)
     failure |-> "none",    \* the request that failed, if the last request issued failed
     posted |-> NoId,       \* the record POST /entities has written, response still pending
     created |-> NoId,
     retry |-> 0,
     lookups |-> 0,         \* Lookup-N requests issued
     onlyOwn |-> FALSE,     \* the last Lookup-N returned the created entity alone
     slept |-> <<>>,        \* the base of each delay() awaited, oldest first
     winner |-> NoId,
     apiCalls |-> 0,        \* graph API requests issued
     deletes |-> 0,         \* DELETE requests issued
     result |-> CheckCreateResult(NoId, FALSE, normalizeLabel(entity.label), entity.type)]

-----------------------------------------------------------------------------
(* parse.ts and the part of processJob that prepares the batch *)

\* Ids outside the ids of extracted entities.
IdSpace == NumIds + MaxCreates + 2 * MaxRels + MaxProps
SourceChunkId == IdSpace + 1     \* target.id, the chunk the job extracts from
CollectionId == IdSpace + 2      \* request.target_collection
SourceLabel == <<"S">>           \* properties.label || 'Source'
Now == "now"                     \* new Date().toISOString()

Range(s) == {s[i] : i \in 1..Len(s)}

AddLabel(labels, l) == IF l \in Range(labels) THEN labels ELSE Append(labels, l)

RECURSIVE AddRelLabels(_, _)
AddRelLabels(labels, rels) ==
    IF rels = <<>> THEN labels
    ELSE AddRelLabels(AddLabel(AddLabel(labels, Head(rels).subject), Head(rels).target),
                      Tail(rels))

RECURSIVE AddPropLabels(_, _)
AddPropLabels(labels, props) ==
    IF props = <<>> THEN labels
    ELSE AddPropLabels(AddLabel(labels, Head(props).entity), Tail(props))

RECURSIVE AddCreateLabels(_, _)
AddCreateLabels(labels, creates) ==
    IF creates = <<>> THEN labels
    ELSE AddCreateLabels(AddLabel(labels, Head(creates).label), Tail(creates))

\* A JavaScript Set iterates in insertion order: creates, properties, relationships.
collectReferencedLabels(ops) ==
    AddRelLabels(AddPropLabels(AddCreateLabels(<<>>, ops.creates), ops.properties),
                 ops.relationships)

\* The auto-create loop: one generic create per normalized label with no explicit create.
RECURSIVE AutoCreateLoop(_, _, _)
AutoCreateLoop(allLabels, explicitLabels, creates) ==
    IF allLabels = <<>> THEN creates
    ELSE LET normalized == normalizeLabel(Head(allLabels)) IN
         IF normalized \in explicitLabels
         THEN AutoCreateLoop(Tail(allLabels), explicitLabels, creates)
         ELSE AutoCreateLoop(Tail(allLabels), explicitLabels \cup {normalized},
                             Append(creates, [label |-> normalized, entity_type |-> "entity"]))

\* Mutant of AutoCreate: the explicit labels are kept as spelled.
AutoCreateRawLabels(ops) ==
    [ops EXCEPT !.creates =
        AutoCreateLoop(collectReferencedLabels(ops),
                       {ops.creates[i].label : i \in 1..Len(ops.creates)},
                       ops.creates)]

\* The loop that appends a generic create for every label no create op declares.
AutoCreate(ops) ==
    [ops EXCEPT !.creates =
        AutoCreateLoop(collectReferencedLabels(ops),
                       {normalizeLabel(ops.creates[i].label) : i \in 1..Len(ops.creates)},
                       ops.creates)]

\* Mutant of EmptyExtraction: the early return is lost.
EmptyExtractionNever(ops) == FALSE

\* operations.creates.length === 0
EmptyExtraction(ops) == Len(ops.creates) = 0

EntitiesToCreate(ops) ==
    [i \in 1..Len(ops.creates) |->
        [label |-> ops.creates[i].label, type |-> ops.creates[i].entity_type]]

EntityKey(entity) == <<entity.type, normalizeLabel(entity.label)>>

RECURSIVE DedupeLoop(_, _, _)
DedupeLoop(ents, seen, uniq) ==
    IF ents = <<>> THEN uniq
    ELSE IF EntityKey(Head(ents)) \in seen
         THEN DedupeLoop(Tail(ents), seen, uniq)
         ELSE DedupeLoop(Tail(ents), seen \cup {EntityKey(Head(ents))}, Append(uniq, Head(ents)))

\* Mutant of dedupeByLabelType: the key is built from the label as spelled.
RECURSIVE DedupeRawLoop(_, _, _)
DedupeRawLoop(ents, seen, uniq) ==
    IF ents = <<>> THEN uniq
    ELSE IF <<Head(ents).type, Head(ents).label>> \in seen
         THEN DedupeRawLoop(Tail(ents), seen, uniq)
         ELSE DedupeRawLoop(Tail(ents), seen \cup {<<Head(ents).type, Head(ents).label>>},
                            Append(uniq, Head(ents)))

dedupeByRawLabel(ents) == DedupeRawLoop(ents, {}, <<>>)

dedupeByLabelType(ents) == DedupeLoop(ents, {}, <<>>)

-----------------------------------------------------------------------------
(* buildUpdates *)

SourceRef == [id |-> SourceChunkId, type |-> "chunk", label |-> SourceLabel]

HasUpdate(ups, entityId) == \E i \in 1..Len(ups) : ups[i].entity_id = entityId

UpdateIndex(ups, entityId) == CHOOSE i \in 1..Len(ups) : ups[i].entity_id = entityId

\* getUpdate: the map keeps insertion order, a missing entry is appended empty.
getUpdate(ups, entityId) ==
    IF HasUpdate(ups, entityId) THEN ups
    ELSE Append(ups, [entity_id |-> entityId, properties |-> <<>>, relationships_add |-> <<>>])

PushRelationship(ups, entityId, rel) ==
    LET u == getUpdate(ups, entityId)
        i == UpdateIndex(u, entityId)
    IN [u EXCEPT ![i].relationships_add = Append(@, rel)]

Resolves(labelToId, label) == normalizeLabel(label) \in DOMAIN labelToId

RECURSIVE PropertyLoop(_, _, _)
PropertyLoop(ups, props, labelToId) ==
    IF props = <<>> THEN ups
    ELSE LET propOp == Head(props) IN
         IF ~Resolves(labelToId, propOp.entity)
         THEN PropertyLoop(ups, Tail(props), labelToId)
         ELSE LET entityId == labelToId[normalizeLabel(propOp.entity)]
                  u == getUpdate(ups, entityId)
                  i == UpdateIndex(u, entityId)
              IN PropertyLoop(
                     [u EXCEPT ![i].properties = (propOp.key :> propOp.value) @@ @],
                     Tail(props), labelToId)

RelationshipEdge(relOp, targetId) ==
    [predicate |-> relOp.predicate,
     peer |-> targetId,
     peer_label |-> relOp.target,
     direction |-> "outgoing",
     properties |-> [description |-> relOp.description,
                     source |-> SourceRef,
                     source_text |-> relOp.source_text,
                     confidence |-> 1]]

\* Mutant of ReferencedByEdge: context takes the description, not the predicate.
ReferencedByEdgeDescription(relOp, subjectId) ==
    [predicate |-> "referenced_by",
     peer |-> subjectId,
     peer_label |-> relOp.subject,
     direction |-> "outgoing",
     properties |-> [context |-> relOp.description,
                     source_text |-> relOp.source_text,
                     source |-> SourceRef]]

ReferencedByEdge(relOp, subjectId) ==
    [predicate |-> "referenced_by",
     peer |-> subjectId,
     peer_label |-> relOp.subject,
     direction |-> "outgoing",
     properties |-> [context |-> relOp.predicate,
                     source_text |-> relOp.source_text,
                     source |-> SourceRef]]

ExtractedFromEdge ==
    [predicate |-> "extracted_from",
     peer |-> SourceChunkId,
     peer_label |-> SourceRef.label,
     direction |-> "outgoing",
     properties |-> [extracted_at |-> Now, source |-> SourceRef]]

ResolvedRel(labelToId, relOp) ==
    Resolves(labelToId, relOp.subject) /\ Resolves(labelToId, relOp.target)

\* First loop over the relationships: the subject's outgoing edge.
RECURSIVE RelationshipLoop(_, _, _)
RelationshipLoop(ups, rels, labelToId) ==
    IF rels = <<>> THEN ups
    ELSE LET relOp == Head(rels) IN
         IF ~ResolvedRel(labelToId, relOp)
         THEN RelationshipLoop(ups, Tail(rels), labelToId)
         ELSE RelationshipLoop(
                  PushRelationship(ups, labelToId[normalizeLabel(relOp.subject)],
                      RelationshipEdge(relOp, labelToId[normalizeLabel(relOp.target)])),
                  Tail(rels), labelToId)

\* The set "subjects" after the first loop.
Subjects(rels, labelToId) ==
    {labelToId[normalizeLabel(rels[i].subject)] :
        i \in {k \in 1..Len(rels) : ResolvedRel(labelToId, rels[k])}}

\* Mutant of IsOrphanTarget: the negation is lost.
IsOrphanTargetInverted(subjects, targetId) == targetId \in subjects

\* The test that guards the push of a referenced_by edge.
IsOrphanTarget(subjects, targetId) == targetId \notin subjects

\* Second loop over the relationships: referenced_by on targets that are no subject.
RECURSIVE OrphanLoop(_, _, _, _)
OrphanLoop(ups, rels, labelToId, subjects) ==
    IF rels = <<>> THEN ups
    ELSE LET relOp == Head(rels) IN
         IF ~ResolvedRel(labelToId, relOp)
         THEN OrphanLoop(ups, Tail(rels), labelToId, subjects)
         ELSE LET subjectId == labelToId[normalizeLabel(relOp.subject)]
                  targetId == labelToId[normalizeLabel(relOp.target)]
              IN IF IsOrphanTarget(subjects, targetId)
                 THEN OrphanLoop(PushRelationship(ups, targetId, ReferencedByEdge(relOp, subjectId)),
                                 Tail(rels), labelToId, subjects)
                 ELSE OrphanLoop(ups, Tail(rels), labelToId, subjects)

\* Last loop: extracted_from on every entry of updatesByEntity.
AddExtractedFrom(ups) ==
    [i \in 1..Len(ups) |->
        [ups[i] EXCEPT !.relationships_add = Append(@, ExtractedFromEdge)]]

\* Mutant of buildUpdates: extracted_from is added before the orphan loop.
buildUpdatesEarlyProvenance(ops, labelToId) ==
    OrphanLoop(
        AddExtractedFrom(
            RelationshipLoop(PropertyLoop(<<>>, ops.properties, labelToId),
                             ops.relationships, labelToId)),
        ops.relationships, labelToId,
        Subjects(ops.relationships, labelToId))

buildUpdates(ops, labelToId) ==
    AddExtractedFrom(
        OrphanLoop(
            RelationshipLoop(PropertyLoop(<<>>, ops.properties, labelToId),
                             ops.relationships, labelToId),
            ops.relationships, labelToId,
            Subjects(ops.relationships, labelToId)))

-----------------------------------------------------------------------------
(* processJob after batchCheckCreate has resolved *)

RECURSIVE LabelToId(_)
LabelToId(res) ==
    IF res = <<>> THEN <<>>
    ELSE (res[Len(res)].label :> res[Len(res)].entityId)
         @@ LabelToId(SubSeq(res, 1, Len(res) - 1))

IsNewResult(r) == r.isNew

\* Mutant of NewEntityIds: the isNew filter is lost.
NewEntityIdsAll(res) == [i \in 1..Len(res) |-> res[i].entityId]

NewEntityIds(res) ==
    LET new == SelectSeq(res, IsNewResult) IN [i \in 1..Len(new) |-> new[i].entityId]

ExtractedEntityEdge(r) ==
    [predicate |-> "extracted_entity",
     peer |-> r.entityId,
     peer_label |-> r.label,
     direction |-> "outgoing",
     properties |-> [extracted_at |-> Now, entity_type |-> r.type]]

\* Mutant of SourceBacklinks: only the entities this job created are linked.
SourceBacklinksNewOnly(res) ==
    IF Len(res) > 0
    THEN <<[entity_id |-> SourceChunkId,
            relationships_add |->
                [i \in 1..Len(SelectSeq(res, IsNewResult)) |->
                    ExtractedEntityEdge(SelectSeq(res, IsNewResult)[i])]]>>
    ELSE <<>>

\* The update on the source chunk: one extracted_entity edge per result.
SourceBacklinks(res) ==
    IF Len(res) > 0
    THEN <<[entity_id |-> SourceChunkId,
            relationships_add |-> [i \in 1..Len(res) |-> ExtractedEntityEdge(res[i])]]>>
    ELSE <<>>

CollectionAudit ==
    <<[entity_id |-> CollectionId,
       relationships_add |->
           <<[predicate |-> "contains",
              peer |-> SourceChunkId,
              peer_label |-> SourceLabel,
              direction |-> "outgoing",
              properties |-> [relationship_type |-> "processed_chunk",
                              processed_at |-> Now]]>>]>>

JobUpdates(ops, res) ==
    buildUpdates(ops, LabelToId(res)) \o SourceBacklinks(res) \o CollectionAudit

\* Mutant of Batches: the list goes out in one post.
BatchesWhole(ups) == IF Len(ups) = 0 THEN <<>> ELSE <<ups>>

\* fireUpdates: consecutive slices of UPDATE_BATCH_SIZE entries.
RECURSIVE Batches(_)
Batches(ups) ==
    IF Len(ups) = 0 THEN <<>>
    ELSE <<SubSeq(ups, 1, Min(UPDATE_BATCH_SIZE, Len(ups)))>>
         \o Batches(SubSeq(ups, Min(UPDATE_BATCH_SIZE, Len(ups)) + 1, Len(ups)))

-----------------------------------------------------------------------------
(* JSON values: what JSON.parse yields and what the graph service answers with *)

JsonUndefined == [type |-> "undefined"]     \* a key that is not there
JsonNull == [type |-> "null"]
JsonNumber == [type |-> "number"]
JsonString(value) == [type |-> "string", value |-> value]
JsonText(length) == [type |-> "string", length |-> length]   \* a text, by its length
JsonArray(items) == [type |-> "array", items |-> items]
JsonObject(fields) == [type |-> "object", fields |-> fields]

\* typeof v
Typeof(v) == IF v.type \in {"null", "array"} THEN "object" ELSE v.type

\* o[k] for an object o
Field(o, k) ==
    IF o.type = "object" /\ k \in DOMAIN o.fields THEN o.fields[k] ELSE JsonUndefined

\* !!v for the values a text can be: null, undefined and '' are falsy
Truthy(v) ==
    /\ v.type \notin {"undefined", "null"}
    /\ ("length" \in DOMAIN v) => v.length > 0

\* A string content JSON.parse accepts, with the value it yields, or one it throws on.
ValidJson(value) == [valid |-> TRUE, value |-> value]
InvalidJson == [valid |-> FALSE]

-----------------------------------------------------------------------------
(* job.ts: fetchTextContent and the checks on the text *)

fetchTextContent(properties, endpoint) ==
    IF Truthy(properties.text) /\ Typeof(properties.text) = "string"
    THEN properties.text
    ELSE IF Truthy(properties.content) /\ Typeof(properties.content) = "string"
    THEN properties.content
    ELSE IF endpoint.error \/ ~Truthy(endpoint.data) THEN JsonNull
    ELSE IF Typeof(endpoint.data) = "string" THEN endpoint.data
    ELSE JsonNull

\* Mutant of TooShort: the comparison is <=.
TooShortInclusive(text) == ~Truthy(text) \/ text.length <= MIN_TEXT_LENGTH

\* !text || text.length < 50
TooShort(text) == ~Truthy(text) \/ text.length < MIN_TEXT_LENGTH

\* text.length > MAX_TEXT_SIZE
TooLarge(text) == text.length > MAX_TEXT_SIZE

\* The error the checks of processJob throw for this text, "none" if they pass.
TextError(text) ==
    IF TooShort(text) THEN "no_text"
    ELSE IF TooLarge(text) THEN "too_large"
    ELSE "none"

-----------------------------------------------------------------------------
(* parse.ts: parseOperations *)

\* typeof op === 'object' && op !== null
IsObject(op) == Typeof(op) = "object" /\ op.type # "null"

IsStringField(op, k) == Typeof(Field(op, k)) = "string"

HasOp(op, name) == IsStringField(op, "op") /\ Field(op, "op").value = name

isCreateOp(op) ==
    /\ IsObject(op)
    /\ HasOp(op, "create")
    /\ IsStringField(op, "label")
    /\ IsStringField(op, "entity_type")
    /\ IsStringField(op, "description")
    /\ Field(op, "properties").type = "undefined" \/ Typeof(Field(op, "properties")) = "object"

isAddPropertyOp(op) ==
    /\ IsObject(op)
    /\ HasOp(op, "add_property")
    /\ IsStringField(op, "entity")
    /\ IsStringField(op, "key")
    /\ IsStringField(op, "value")

isAddRelationshipOp(op) ==
    /\ IsObject(op)
    /\ HasOp(op, "add_relationship")
    /\ IsStringField(op, "subject")
    /\ IsStringField(op, "predicate")
    /\ IsStringField(op, "target")
    /\ IsStringField(op, "description")
    /\ Field(op, "quote_start").type = "undefined" \/ IsStringField(op, "quote_start")
    /\ Field(op, "quote_end").type = "undefined" \/ IsStringField(op, "quote_end")

\* The value of an optional string field, as the update builder reads it.
Optional(op, k) == IF IsStringField(op, k) THEN Field(op, k).value ELSE Undefined

\* The fields of an accepted op that the job reads.
CreateOp(op) == [label |-> Field(op, "label").value, entity_type |-> Field(op, "entity_type").value]

AddPropertyOp(op) ==
    [entity |-> Field(op, "entity").value, key |-> Field(op, "key").value,
     value |-> Field(op, "value").value]

AddRelationshipOp(op) ==
    [subject |-> Field(op, "subject").value, predicate |-> Field(op, "predicate").value,
     target |-> Field(op, "target").value, description |-> Field(op, "description").value,
     source_text |-> Optional(op, "source_text"),
     quote_start |-> Optional(op, "quote_start"), quote_end |-> Optional(op, "quote_end")]

\* Mutant of Categorize: an element that matches no variant makes the parse fail.
RECURSIVE CategorizeStrict(_, _)
CategorizeStrict(ops, acc) ==
    IF ops = <<>> THEN acc
    ELSE LET op == Head(ops) IN
         IF isCreateOp(op)
         THEN CategorizeStrict(Tail(ops), [acc EXCEPT !.creates = Append(@, CreateOp(op))])
         ELSE IF isAddPropertyOp(op)
         THEN CategorizeStrict(Tail(ops), [acc EXCEPT !.properties = Append(@, AddPropertyOp(op))])
         ELSE IF isAddRelationshipOp(op)
         THEN CategorizeStrict(Tail(ops),
                               [acc EXCEPT !.relationships = Append(@, AddRelationshipOp(op))])
         ELSE [acc EXCEPT !.error = "invalid_operation"]

\* The loop over the operations: each element goes to the list of the first variant
\* it matches, or is skipped with a warning.
RECURSIVE Categorize(_, _)
Categorize(ops, acc) ==
    IF ops = <<>> THEN acc
    ELSE LET op == Head(ops) IN
         IF isCreateOp(op)
         THEN Categorize(Tail(ops), [acc EXCEPT !.creates = Append(@, CreateOp(op))])
         ELSE IF isAddPropertyOp(op)
         THEN Categorize(Tail(ops), [acc EXCEPT !.properties = Append(@, AddPropertyOp(op))])
         ELSE IF isAddRelationshipOp(op)
         THEN Categorize(Tail(ops),
                         [acc EXCEPT !.relationships = Append(@, AddRelationshipOp(op))])
         ELSE Categorize(Tail(ops), acc)

NoOperations == [error |-> "none", creates |-> <<>>, properties |-> <<>>, relationships |-> <<>>]

\* parseOperations(content): error is "none" when it returns, else what it threw on.
parseOperations(content) ==
    IF ~content.valid THEN [NoOperations EXCEPT !.error = "json"]
    ELSE LET parsed == content.value IN
         IF parsed.type = "array" THEN Categorize(parsed.items, NoOperations)
         ELSE IF IsObject(parsed) /\ Field(parsed, "operations").type = "array"
         THEN Categorize(Field(parsed, "operations").items, NoOperations)
         ELSE [NoOperations EXCEPT !.error = "shape"]

\* The ParsedOperations of a result of parseOperations.
ParsedOperations(r) ==
    [creates |-> r.creates, properties |-> r.properties, relationships |-> r.relationships]

-----------------------------------------------------------------------------
(* gemini.ts: callGemini *)

GEMINI_MAX_RETRIES == 3      \* MAX_RETRIES of gemini.ts
BASE_DELAY_MS == 15000
MAX_DELAY_MS == 120000

\* What one fetch can meet: a parsable 200, 429, a 5xx, another non-2xx status, a
\* network error, the abort after REQUEST_TIMEOUT_MS, a 200 whose body is no JSON.
GeminiOutcomes == {"ok", "429", "500", "400", "network", "timeout", "badjson"}

\* One create op as the prompt asks for it.
PersonOp(label) ==
    JsonObject([op |-> JsonString("create"), label |-> JsonString(label),
                entity_type |-> JsonString("person"), description |-> JsonString("d")])

\* The content of a payload: text that is no JSON, an empty extraction, one entity.
GeminiContents ==
    {InvalidJson, ValidJson(JsonArray(<<>>)), ValidJson(JsonArray(<<PersonOp(<<"Q">>)>>))}

RECURSIVE Pow2(_)
Pow2(n) == IF n = 0 THEN 1 ELSE 2 * Pow2(n - 1)

\* Mutant of RetryDelay: the delay grows by the base, not by doubling.
RetryDelayLinear(attempt) == Min(BASE_DELAY_MS * (attempt + 1), MAX_DELAY_MS)

\* Math.min(BASE_DELAY_MS * Math.pow(2, attempt), MAX_DELAY_MS)
RetryDelay(attempt) == Min(BASE_DELAY_MS * Pow2(attempt), MAX_DELAY_MS)

\* Mutant of LoopContinues: the loop runs one attempt more.
LoopContinuesOneMore(attempt) == attempt <= GEMINI_MAX_RETRIES + 1

\* attempt <= MAX_RETRIES, the test of the for loop.
LoopContinues(attempt) == attempt <= GEMINI_MAX_RETRIES

\* Mutant of NextAttempt: a retry costs two attempts.
NextAttemptSkips(attempt) == attempt + 2

\* attempt++ of the for loop.
NextAttempt(attempt) == attempt + 1

\* attempt < MAX_RETRIES, the test of both retry branches.
CanRetry(attempt) == attempt < GEMINI_MAX_RETRIES

\* callGemini before its first attempt.
GeminiStart ==
    [pc |-> "attempt", attempt |-> 0, requests |-> 0, history |-> <<>>, slept |-> <<>>,
     lastError |-> "null", content |-> InvalidJson]

\* No call of callGemini has been made.
GeminiNotCalled == [GeminiStart EXCEPT !.pc = "none"]

\* callGemini after it returned on its first attempt.
GeminiReturned ==
    [pc |-> "returned", attempt |-> 0, requests |-> 1, history |-> <<"ok">>, slept |-> <<>>,
     lastError |-> "null", content |-> ValidJson(JsonArray(<<>>))]

\* The loop test and the fetch of one attempt.
GeminiFetch ==
    /\ gemini.pc = "attempt"
    /\ IF LoopContinues(gemini.attempt)
       THEN gemini' = [gemini EXCEPT !.pc = "fetching", !.requests = @ + 1]
       ELSE gemini' = [gemini EXCEPT !.pc = "thrown"]
    /\ UNCHANGED <<args, returned>>
    /\ UNCHANGED <<jobText, thrown, entities, deleteIssued, calls, jobPc, operations,
                   unique, concurrency,
                   launched, results, updates, posts, postStatus, outputs>>

\* The fetch settles and the rest of the loop body runs, up to the return, the sleep
\* or the end of the loop.
GeminiRespond ==
    /\ gemini.pc = "fetching"
    /\ \E outcome \in GeminiOutcomes :
          LET met == [gemini EXCEPT !.history = Append(@, outcome)] IN
          IF outcome = "ok"
          THEN \E content \in GeminiContents :
                  gemini' = [met EXCEPT !.pc = "returned", !.content = content]
          ELSE IF CanRetry(gemini.attempt)
          THEN gemini' = [met EXCEPT !.pc = "sleeping",
                                     !.slept = Append(@, RetryDelay(gemini.attempt)),
                                     !.lastError = IF outcome \in {"429", "500"}
                                                   THEN gemini.lastError ELSE outcome]
          ELSE gemini' = [met EXCEPT !.pc = "attempt", !.attempt = NextAttempt(@),
                                     !.lastError = outcome]
    /\ UNCHANGED <<args, returned>>
    /\ UNCHANGED <<jobText, thrown, entities, deleteIssued, calls, jobPc, operations,
                   unique, concurrency,
                   launched, results, updates, posts, postStatus, outputs>>

\* The sleep is over: continue, or fall out of the catch block, to attempt++.
GeminiWake ==
    /\ gemini.pc = "sleeping"
    /\ gemini' = [gemini EXCEPT !.pc = "attempt", !.attempt = NextAttempt(@)]
    /\ UNCHANGED <<args, returned>>
    /\ UNCHANGED <<jobText, thrown, entities, deleteIssued, calls, jobPc, operations,
                   unique, concurrency,
                   launched, results, updates, posts, postStatus, outputs>>

-----------------------------------------------------------------------------
(* Actions *)

JobOf(c) == c[1]
CallIds == DOMAIN calls
CallsOf(j) == {c \in CallIds : JobOf(c) = j}

\* The checkCreate invocations of job j that have not settled: the set "executing".
Executing(j) == {c \in CallsOf(j) : calls[c].pc \notin {"done", "failed"}}

\* Mutant of Rejected: the rejection of an item is swallowed.
RejectedNever(j) == FALSE

\* Some checkCreate of job j threw: Promise.race / Promise.all reject.
Rejected(j) == \E c \in CallsOf(j) : calls[c].pc = "failed"

\* Mutant of InitialLaunch: the test executing.size >= concurrency is lost.
InitialLaunchAll(len, limit) == len

\* The items the loop of runWithConcurrency starts before its first await.
InitialLaunch(len, limit) == Min(len, limit)

\* Mutant of BatchResolved: Promise.race in place of Promise.all.
BatchResolvedRace(j) == Len(results[j]) >= 1

\* await Promise.all(executing) has resolved: every item pushed its result.
BatchResolved(j) == Len(results[j]) = Len(unique[j])

\* Job j has a continuation to run: its batch resolved or rejected and processJob has
\* not gone on yet, or it stands between buildUpdates and fireUpdates.
Continuing(j) ==
    \/ jobPc[j] = "built"
    \/ jobPc[j] = "batch" /\ (BatchResolved(j) \/ Rejected(j))

\* The continuations of promises that are settled run before the next response or
\* timer is handled: no job has one left.
Idle == \A j \in Jobs : ~Continuing(j)

\* The same loop never going on to its next item.
LaunchesNextNever(j) == FALSE

\* await Promise.race(executing) has resolved and the for loop of runWithConcurrency
\* has an item left: it calls fn on it.
LaunchesNext(j) == jobPc[j] = "batch" /\ ~Rejected(j) /\ launched[j] < Len(unique[j])

\* A checkCreate promise resolves: results.push, executing.delete, and the loop of
\* runWithConcurrency, if it waits in Promise.race, starts the next item.
ResolveCall(c, call, res) ==
    LET j == JobOf(c)
        done == [call EXCEPT !.pc = "done", !.result = res]
        more == LaunchesNext(j)
    IN /\ results' = [results EXCEPT ![j] = Append(@, res)]
       /\ launched' = [launched EXCEPT ![j] = IF more THEN @ + 1 ELSE @]
       /\ calls' = IF more
                   THEN (<<j, launched[j] + 1>> :> NewCall(unique[j][launched[j] + 1]))
                        @@ [calls EXCEPT ![c] = done]
                   ELSE [calls EXCEPT ![c] = done]

\* Text lengths around the two limits of processJob.
TextLengths == {0, MIN_TEXT_LENGTH - 1, MIN_TEXT_LENGTH, MAX_TEXT_SIZE, MAX_TEXT_SIZE + 1}

\* target.properties: text and content may be absent, no string, or a string.
TargetProperties ==
    [text : {JsonUndefined, JsonNumber} \cup {JsonText(n) : n \in TextLengths},
     content : {JsonUndefined, JsonText(MIN_TEXT_LENGTH - 1), JsonText(MAX_TEXT_SIZE)}]

\* What GET /entities/{id}/content answers: an error, nothing, binary data, a string.
ContentResponses ==
    [error : BOOLEAN,
     data : {JsonUndefined, JsonNumber, JsonText(MIN_TEXT_LENGTH), JsonText(MAX_TEXT_SIZE + 1)}]

\* Mutant of ReachesGemini: the prompt is sent before the text is checked.
ReachesGeminiAlways(error) == TRUE

\* processJob gets to callGemini only past every throw of step 1.
ReachesGemini(error) == error = "none"

\* processJob from its start to the call of callGemini: the target is fetched, its
\* text is found and checked.
JobFetch(j) ==
    /\ Idle
    /\ jobPc[j] = "new"
    /\ \A k \in Jobs : jobPc[k] # "gemini"
    /\ \E hasTarget \in BOOLEAN :
       \E fetchError \in BOOLEAN :
       \E properties \in TargetProperties :
       \E endpoint \in ContentResponses :
          LET fetched == hasTarget /\ ~fetchError
              text == fetchTextContent(properties, endpoint)
              error == IF ~hasTarget THEN "no_target"
                       ELSE IF fetchError THEN "fetch_failed"
                       ELSE TextError(text)
          IN /\ jobText' = [jobText EXCEPT ![j] = IF fetched THEN text ELSE JsonUndefined]
             /\ thrown' = [thrown EXCEPT ![j] = error]
             /\ jobPc' = [jobPc EXCEPT ![j] = IF error = "none" THEN "gemini" ELSE "failed"]
             /\ gemini' = IF ReachesGemini(error) THEN GeminiStart ELSE gemini
    /\ UNCHANGED <<args, returned>>
    /\ UNCHANGED <<entities, deleteIssued, calls, operations, unique, concurrency, launched,
                   results, updates, posts, postStatus, outputs>>

\* callGemini threw: processJob throws with it.
JobGeminiFail(j) ==
    /\ jobPc[j] = "gemini"
    /\ gemini.pc = "thrown"
    /\ jobPc' = [jobPc EXCEPT ![j] = "failed"]
    /\ thrown' = [thrown EXCEPT ![j] = "gemini"]
    /\ UNCHANGED <<args, returned>>
    /\ UNCHANGED <<jobText, gemini, entities, deleteIssued, calls, operations, unique,
                   concurrency, launched, results, updates, posts, postStatus, outputs>>

\* callGemini returned: parseOperations on the content, and the throw when it fails.
JobParse(j) ==
    /\ jobPc[j] = "gemini"
    /\ gemini.pc = "returned"
    /\ LET parsed == parseOperations(gemini.content) IN
       IF parsed.error # "none"
       THEN /\ jobPc' = [jobPc EXCEPT ![j] = "failed"]
            /\ thrown' = [thrown EXCEPT ![j] = "parse"]
            /\ UNCHANGED operations
       ELSE /\ jobPc' = [jobPc EXCEPT ![j] = "parsed"]
            /\ operations' = [operations EXCEPT ![j] = ParsedOperations(parsed)]
            /\ UNCHANGED thrown
    /\ UNCHANGED <<args, returned>>
    /\ UNCHANGED <<jobText, gemini, entities, deleteIssued, calls, unique, concurrency,
                   launched, results, updates, posts, postStatus, outputs>>

\* processJob from the auto-create loop to the call of batchCheckCreate, and
\* runWithConcurrency up to its first await.
JobStart(j) ==
    /\ Idle
    /\ jobPc[j] = "parsed"
    /\ LET ops == AutoCreate(operations[j])
           uniq == dedupeByLabelType(EntitiesToCreate(ops))
           n == InitialLaunch(Len(uniq), concurrency[j])
       IN /\ operations' = [operations EXCEPT ![j] = ops]
          /\ IF EmptyExtraction(ops)
             THEN /\ jobPc' = [jobPc EXCEPT ![j] = "done"]
                  /\ outputs' = [outputs EXCEPT ![j] = <<>>]
                  /\ UNCHANGED <<unique, launched, calls>>
             ELSE /\ jobPc' = [jobPc EXCEPT ![j] = "batch"]
                  /\ unique' = [unique EXCEPT ![j] = uniq]
                  /\ launched' = [launched EXCEPT ![j] = n]
                  /\ calls' = [c \in {<<j, i>> : i \in 1..n} |-> NewCall(uniq[c[2]])] @@ calls
                  /\ UNCHANGED outputs
    /\ UNCHANGED <<args, returned>>
    /\ UNCHANGED <<jobText, thrown, gemini, entities, deleteIssued, concurrency, results,
                   updates, posts, postStatus>>

\* Step 1 of checkCreate: Lookup-1 and the early return.
Lookup1(c) ==
    /\ Idle
    /\ calls[c].pc = "lookup1"
    /\ \E error \in BOOLEAN :
       \E resp \in LookupResponses(calls[c].normalizedLabel, calls[c].type, LOOKUP_ONE_LIMIT) :
          LET existing == lookupByLabel(error, resp)
              call == [calls[c] EXCEPT !.apiCalls = @ + 1,
                                       !.failure = IF error THEN "lookup1" ELSE "none",
                                       !.answer1 = IF ~error /\ Len(resp) > 0
                                                   THEN resp[1] ELSE NoId]
          IN IF existing # NoId
             THEN ResolveCall(c, call,
                      CheckCreateResult(existing, FALSE, call.normalizedLabel, call.type))
             ELSE /\ calls' = [calls EXCEPT ![c] = [call EXCEPT !.pc = "create"]]
                  /\ UNCHANGED <<results, launched>>
    /\ UNCHANGED <<args, returned>>
    /\ UNCHANGED <<jobText, thrown, gemini, entities, deleteIssued, jobPc, operations,
                   unique, concurrency, updates,
                   posts, postStatus, outputs>>

\* Step 2, request: POST /entities writes the record (or fails and checkCreate throws).
\* The record is not in the lookup index yet.
CreateRequest(c) ==
    /\ Idle
    /\ calls[c].pc = "create"
    /\ \/ /\ calls' = [calls EXCEPT ![c].pc = "failed", ![c].apiCalls = @ + 1,
                                    ![c].failure = "create"]
          /\ UNCHANGED entities
       \/ \E id \in NewIds \ EntityIds :
          \E t \in {LatestCreatedAt, LatestCreatedAt + 1} :
             /\ t >= 1
             /\ entities' = (id :> [label |-> StoredLabel(calls[c]),
                                    type |-> calls[c].type,
                                    created_at |-> t,
                                    indexed |-> FALSE,
                                    deleted |-> FALSE,
                                    creator |-> c]) @@ entities
             /\ calls' = [calls EXCEPT ![c].pc = "indexing", ![c].posted = id,
                                       ![c].apiCalls = @ + 1, ![c].failure = "none"]
    /\ UNCHANGED <<args, returned>>
    /\ UNCHANGED <<jobText, thrown, gemini, deleteIssued, jobPc, operations, unique,
                   concurrency, launched, results,
                   updates, posts, postStatus, outputs>>

\* Step 2, response: sync_index makes the service index the record before it answers.
\* Step 3: checkCreate goes to sleep in delay(100, 100).
CreateResponse(c) ==
    /\ Idle
    /\ calls[c].pc = "indexing"
    /\ entities' = [entities EXCEPT ![calls[c].posted].indexed = TRUE]
    /\ calls' = [calls EXCEPT ![c].pc = "lookupN", ![c].created = calls[c].posted,
                              ![c].slept = Append(@, LOOKUP_DELAY_MS)]
    /\ UNCHANGED <<args, returned>>
    /\ UNCHANGED <<jobText, thrown, gemini, deleteIssued, jobPc, operations, unique,
                   concurrency, launched, results,
                   updates, posts, postStatus, outputs>>

\* Step 4: the delay is over, one Lookup-N; then the retry test, which sends
\* checkCreate to sleep in delay(150, 100), and when the loop ends the race
\* resolution up to the DELETE request or the return.
LookupN(c) ==
    /\ Idle
    /\ calls[c].pc = "lookupN"
    /\ \E error \in BOOLEAN :
       \E resp \in LookupResponses(calls[c].normalizedLabel, calls[c].type, LOOKUP_ALL_LIMIT) :
          LET allMatches == lookupAllByLabel(error, resp)
              call == [calls[c] EXCEPT !.apiCalls = @ + 1, !.lookups = @ + 1,
                                       !.onlyOwn = OnlyOwn(allMatches, calls[c].created),
                                       !.failure = IF error THEN "lookupN" ELSE "none"]
          IN IF ShouldRetry(call.retry, allMatches, call.created)
             THEN /\ calls' = [calls EXCEPT ![c] =
                                 [call EXCEPT !.retry = @ + 1,
                                              !.slept = Append(@, RETRY_DELAY_MS)]]
                  /\ UNCHANGED <<results, launched>>
             ELSE IF LostRace(allMatches, call.created)
             THEN /\ calls' = [calls EXCEPT ![c] =
                                 [call EXCEPT !.pc = "delete",
                                              !.winner = SortMatches(allMatches)[1]]]
                  /\ UNCHANGED <<results, launched>>
             ELSE ResolveCall(c, call,
                      CheckCreateResult(call.created, TRUE, call.normalizedLabel, call.type))
    /\ UNCHANGED <<args, returned>>
    /\ UNCHANGED <<jobText, thrown, gemini, entities, deleteIssued, jobPc, operations,
                   unique, concurrency, updates,
                   posts, postStatus, outputs>>

\* The same request aimed at the entity that won.
DeleteTargetWinner(call) == call.winner

\* await deleteEntity(client, created.id)
DeleteTarget(call) == call.created

\* Step 5: the loser deletes its own entity (an error is logged and swallowed) and
\* returns the winner.
DeleteOwn(c) ==
    /\ Idle
    /\ calls[c].pc = "delete"
    /\ deleteIssued' = deleteIssued \cup {DeleteTarget(calls[c])}
    /\ \E error \in BOOLEAN :
          LET call == [calls[c] EXCEPT !.apiCalls = @ + 1, !.deletes = @ + 1,
                                       !.failure = IF error THEN "delete" ELSE "none"]
          IN /\ entities' = IF error THEN entities
                            ELSE [entities EXCEPT ![DeleteTarget(calls[c])].deleted = TRUE]
             /\ IF deleteEntity(error) = "thrown"
                THEN /\ calls' = [calls EXCEPT ![c] = [call EXCEPT !.pc = "failed"]]
                     /\ UNCHANGED <<results, launched>>
                ELSE ResolveCall(c, call,
                         CheckCreateResult(call.winner, FALSE, call.normalizedLabel, call.type))
    /\ UNCHANGED <<args, returned>>
    /\ UNCHANGED <<jobText, thrown, gemini, jobPc, operations, unique, concurrency, updates,
                   posts, postStatus, outputs>>

\* batchCheckCreate has resolved: label map, new ids, buildUpdates and the two
\* synthetic updates.
JobBuild(j) ==
    /\ jobPc[j] = "batch"
    /\ BatchResolved(j)
    /\ updates' = [updates EXCEPT ![j] = JobUpdates(operations[j], results[j])]
    /\ jobPc' = [jobPc EXCEPT ![j] = "built"]
    /\ UNCHANGED <<args, returned>>
    /\ UNCHANGED <<jobText, thrown, gemini, entities, deleteIssued, calls, operations,
                   unique, concurrency, launched,
                   results, posts, postStatus, outputs>>

\* fireUpdates issues every POST /updates/additive without awaiting any, and
\* processJob returns the new ids.
JobFinish(j) ==
    /\ jobPc[j] = "built"
    /\ posts' = [posts EXCEPT ![j] = Batches(updates[j])]
    /\ postStatus' = [postStatus EXCEPT ![j] =
                         [b \in 1..Len(Batches(updates[j])) |-> "pending"]]
    /\ outputs' = [outputs EXCEPT ![j] = NewEntityIds(results[j])]
    /\ jobPc' = [jobPc EXCEPT ![j] = "done"]
    /\ UNCHANGED <<args, returned>>
    /\ UNCHANGED <<jobText, thrown, gemini, entities, deleteIssued, calls, operations,
                   unique, concurrency, launched,
                   results, updates>>

\* A checkCreate threw: Promise.race / Promise.all rejects and processJob throws.
JobFail(j) ==
    /\ jobPc[j] = "batch"
    /\ Rejected(j)
    /\ jobPc' = [jobPc EXCEPT ![j] = "failed"]
    /\ thrown' = [thrown EXCEPT ![j] = "check_create"]
    /\ UNCHANGED <<args, returned>>
    /\ UNCHANGED <<jobText, gemini, entities, deleteIssued, calls, operations, unique,
                   concurrency,
                   launched, results, updates, posts, postStatus, outputs>>

PostOutcomes == {"accepted", "error", "rejected"}

\* Mutant of AfterPost: the post is awaited and its rejection fails the job.
AfterPostAwaited(pc, outcome) == IF outcome = "rejected" THEN "failed" ELSE pc

\* What the handlers of a post do to the job that fired it: they log, nothing else.
AfterPost(pc, outcome) == pc

\* The answer to one POST /updates/additive arrives: .then sees a result (accepted or
\* an error), .catch a rejection.
PostResponse(j) ==
    /\ Idle
    /\ \E b \in 1..Len(posts[j]) :
       \E outcome \in PostOutcomes :
          /\ postStatus[j][b] = "pending"
          /\ postStatus' = [postStatus EXCEPT ![j][b] = outcome]
          /\ jobPc' = [jobPc EXCEPT ![j] = AfterPost(@, outcome)]
    /\ UNCHANGED <<args, returned>>
    /\ UNCHANGED <<jobText, thrown, gemini, entities, deleteIssued, calls, operations,
                   unique, concurrency, launched,
                   results, updates, posts, outputs>>

-----------------------------------------------------------------------------
(* Specification of concurrent jobs racing on one collection *)

PersonCreate(label) == [label |-> label, entity_type |-> "person"]

CreatesOnly(creates) == [creates |-> creates, properties |-> <<>>, relationships |-> <<>>]

\* What the LLM answered to job j: every job extracts "queequeg" as a person, each
\* under another spelling.
RaceSpelling(j) ==
    IF j = 1 THEN <<"Q">>
    ELSE IF j = 2 THEN <<" ", "q", "!">>
    ELSE <<"q">>

RaceOperations(j) == CreatesOnly(<<PersonCreate(RaceSpelling(j))>>)

PreExisting ==
    PreId :> [label |-> <<"q">>, type |-> "person", created_at |-> 0,
              indexed |-> TRUE, deleted |-> FALSE, creator |-> <<0, 0>>]

Init ==
    /\ entities \in {<<>>, PreExisting}
    /\ deleteIssued = {}
    /\ calls = <<>>
    /\ jobPc = [j \in Jobs |-> "parsed"]
    /\ operations = [j \in Jobs |-> RaceOperations(j)]
    /\ unique = [j \in Jobs |-> <<>>]
    /\ concurrency = [j \in Jobs |-> CONCURRENCY]
    /\ launched = [j \in Jobs |-> 0]
    /\ results = [j \in Jobs |-> <<>>]
    /\ updates = [j \in Jobs |-> <<>>]
    /\ posts = [j \in Jobs |-> <<>>]
    /\ postStatus = [j \in Jobs |-> <<>>]
    /\ outputs = [j \in Jobs |-> <<>>]
    /\ gemini = GeminiReturned
    /\ jobText = [j \in Jobs |-> IF jobPc[j] = "absent" THEN JsonUndefined ELSE JsonText(MIN_TEXT_LENGTH)]
    /\ thrown = [j \in Jobs |-> "none"]
    /\ args = NoArgs
    /\ returned = <<>>

Next ==
    \/ \E j \in Jobs : JobStart(j)
    \/ \E c \in CallIds : Lookup1(c)
    \/ \E c \in CallIds : CreateRequest(c)
    \/ \E c \in CallIds : CreateResponse(c)
    \/ \E c \in CallIds : LookupN(c)
    \/ \E c \in CallIds : DeleteOwn(c)
    \/ \E j \in Jobs : JobBuild(j)
    \/ \E j \in Jobs : JobFinish(j)
    \/ \E j \in Jobs : JobFail(j)

Spec == Init /\ [][Next]_vars

-----------------------------------------------------------------------------
(* Specification of the update builder: processJob from the point where        *)
(* batchCheckCreate has resolved, on parsed operations and check-create        *)
(* results drawn from bounded sets.                                             *)

BoundedSeq(S, n) == UNION {[1..k -> S] : k \in 0..n}

CreateChoices ==
    {[label |-> <<"Q">>, entity_type |-> "person"],
     [label |-> <<"q">>, entity_type |-> "place"]}

\* The text of the chunk the job extracts from.
ChunkText == <<"Q", " ", "\t", "p", " ", "r">>

\* An add_relationship op as parseOperations lets it through: the quote markers and
\* source_text are optional.
RelOp(subject, predicate, target, source_text, quote_start, quote_end) ==
    [subject |-> subject, predicate |-> predicate, target |-> target, description |-> "d",
     source_text |-> source_text, quote_start |-> quote_start, quote_end |-> quote_end]

\* Markers found in the text; no markers but a source_text; markers that are not found.
RelChoices ==
    {RelOp(<<"Q">>, "hunts", <<"p">>, Undefined, <<"q">>, <<"p">>),
     RelOp(<<"r">>, "fears", <<"p">>, <<"r", " ", "p">>, Undefined, Undefined),
     RelOp(<<"p">>, "hunts", <<"Q", "!">>, Undefined, <<"p">>, <<"Q">>)}

PropChoices ==
    {[entity |-> <<"Q">>, key |-> "k", value |-> "v"],
     [entity |-> <<"r">>, key |-> "k", value |-> "w"]}

ParsedChoices ==
    {[creates |-> c, properties |-> p, relationships |-> r] :
        c \in BoundedSeq(CreateChoices, MaxCreates),
        p \in BoundedSeq(PropChoices, MaxProps),
        r \in BoundedSeq(RelChoices, MaxRels)}

Reverse(s) == [i \in 1..Len(s) |-> s[Len(s) + 1 - i]]

\* The results batchCheckCreate can resolve with for the list uniq: one result per
\* entry, the first numNew entities new and the others found, in order of
\* completion (as launched, or reversed).
BatchResults(uniq) ==
    UNION {{r, Reverse(r)} :
        r \in {[i \in 1..Len(uniq) |->
                   CheckCreateResult(i, i <= numNew, normalizeLabel(uniq[i].label), uniq[i].type)] :
               numNew \in 0..Len(uniq)}}

InitBuild ==
    /\ entities = <<>>
    /\ deleteIssued = {}
    /\ calls = <<>>
    /\ jobPc = [j \in Jobs |-> IF j = 1 THEN "batch" ELSE "absent"]
    /\ \E parsed \in ParsedChoices :
          LET ops == AutoCreate(parsed)
              uniq == dedupeByLabelType(EntitiesToCreate(ops))
          IN /\ Len(ops.creates) > 0
             /\ operations = [j \in Jobs |-> IF j = 1 THEN ops ELSE CreatesOnly(<<>>)]
             /\ unique = [j \in Jobs |-> IF j = 1 THEN uniq ELSE <<>>]
             /\ launched = [j \in Jobs |-> IF j = 1 THEN Len(uniq) ELSE 0]
             /\ \E res \in BatchResults(uniq) :
                   results = [j \in Jobs |-> IF j = 1 THEN res ELSE <<>>]
    /\ concurrency = [j \in Jobs |-> CONCURRENCY]
    /\ updates = [j \in Jobs |-> <<>>]
    /\ posts = [j \in Jobs |-> <<>>]
    /\ postStatus = [j \in Jobs |-> <<>>]
    /\ outputs = [j \in Jobs |-> <<>>]
    /\ gemini = GeminiReturned
    /\ jobText = [j \in Jobs |-> IF jobPc[j] = "absent" THEN JsonUndefined ELSE JsonText(MIN_TEXT_LENGTH)]
    /\ thrown = [j \in Jobs |-> "none"]
    /\ args = NoArgs
    /\ returned = <<>>

NextBuild ==
    \/ \E j \in Jobs : JobBuild(j)
    \/ \E j \in Jobs : JobFinish(j)

SpecBuild == InitBuild /\ [][NextBuild]_vars

-----------------------------------------------------------------------------
(* Specification of one batch: processJob from the parsed operations on, for    *)
(* create lists that spell one entity in several ways, and runWithConcurrency   *)
(* under the ceiling of batchCheckCreate or under a ceiling of one item.        *)

PoolChoices ==
    {[label |-> <<"Q">>, entity_type |-> "person"],
     [label |-> <<" ", "q", "!">>, entity_type |-> "person"],
     [label |-> <<"q">>, entity_type |-> "place"]}

\* The third argument of runWithConcurrency.
PoolCeilings == {1, CONCURRENCY}

InitPool ==
    /\ entities \in {<<>>, PreExisting}
    /\ deleteIssued = {}
    /\ calls = <<>>
    /\ jobPc = [j \in Jobs |-> IF j = 1 THEN "parsed" ELSE "absent"]
    /\ \E creates \in BoundedSeq(PoolChoices, MaxCreates) :
          operations = [j \in Jobs |-> IF j = 1 THEN CreatesOnly(creates) ELSE CreatesOnly(<<>>)]
    /\ unique = [j \in Jobs |-> <<>>]
    /\ \E ceiling \in PoolCeilings : concurrency = [j \in Jobs |-> ceiling]
    /\ launched = [j \in Jobs |-> 0]
    /\ results = [j \in Jobs |-> <<>>]
    /\ updates = [j \in Jobs |-> <<>>]
    /\ posts = [j \in Jobs |-> <<>>]
    /\ postStatus = [j \in Jobs |-> <<>>]
    /\ outputs = [j \in Jobs |-> <<>>]
    /\ gemini = GeminiReturned
    /\ jobText = [j \in Jobs |-> IF jobPc[j] = "absent" THEN JsonUndefined ELSE JsonText(MIN_TEXT_LENGTH)]
    /\ thrown = [j \in Jobs |-> "none"]
    /\ args = NoArgs
    /\ returned = <<>>

SpecPool == InitPool /\ [][Next]_vars

-----------------------------------------------------------------------------
(* Specification of fireUpdates: processJob between buildUpdates and the return, *)
(* on update lists around the multiples of the batch size.                       *)

MaxBatches == 2     \* full batches in one update list

\* Entities of the job: with the chunk and the collection update, the list is one
\* short of, at, or one over a multiple of the batch size.
FireCounts ==
    {n \in 1..(MaxBatches * UPDATE_BATCH_SIZE) :
        \/ n = 1
        \/ \E k \in 1..MaxBatches : n + 2 - k * UPDATE_BATCH_SIZE \in {-1, 0, 1}}

FireDigit(d) == IF d = 0 THEN "q" ELSE IF d = 1 THEN "p" ELSE "r"

\* A label of its own for the entity number i.
RECURSIVE FireLabel(_)
FireLabel(i) ==
    IF i < 3 THEN <<FireDigit(i)>> ELSE Append(FireLabel(i \div 3), FireDigit(i % 3))

FireOperations(n) ==
    [creates |-> [i \in 1..n |-> [label |-> FireLabel(i), entity_type |-> "entity"]],
     properties |-> [i \in 1..n |-> [entity |-> FireLabel(i), key |-> "k", value |-> "v"]],
     relationships |-> <<>>]

FireResults(n, numNew) ==
    [i \in 1..n |-> CheckCreateResult(CollectionId + i, i <= numNew, FireLabel(i), "entity")]

\* The list processJob has built for these results: one update per entity with its
\* property and extracted_from, then the chunk and the collection updates.
FireUpdates(res) ==
    [i \in 1..Len(res) |->
        [entity_id |-> res[i].entityId,
         properties |-> ("k" :> "v"),
         relationships_add |-> <<ExtractedFromEdge>>]]
    \o SourceBacklinks(res) \o CollectionAudit

InitFire ==
    /\ entities = <<>>
    /\ deleteIssued = {}
    /\ calls = <<>>
    /\ jobPc = [j \in Jobs |-> IF j = 1 THEN "built" ELSE "absent"]
    /\ \E n \in FireCounts :
       \E numNew \in {0, 1, n} :
          /\ operations = [j \in Jobs |-> IF j = 1 THEN FireOperations(n) ELSE CreatesOnly(<<>>)]
          /\ unique = [j \in Jobs |->
                          IF j = 1 THEN EntitiesToCreate(FireOperations(n)) ELSE <<>>]
          /\ launched = [j \in Jobs |-> IF j = 1 THEN n ELSE 0]
          /\ results = [j \in Jobs |-> IF j = 1 THEN FireResults(n, numNew) ELSE <<>>]
          /\ updates = [j \in Jobs |->
                           IF j = 1 THEN FireUpdates(FireResults(n, numNew)) ELSE <<>>]
    /\ concurrency = [j \in Jobs |-> CONCURRENCY]
    /\ posts = [j \in Jobs |-> <<>>]
    /\ postStatus = [j \in Jobs |-> <<>>]
    /\ outputs = [j \in Jobs |-> <<>>]
    /\ gemini = GeminiReturned
    /\ jobText = [j \in Jobs |-> IF jobPc[j] = "absent" THEN JsonUndefined ELSE JsonText(MIN_TEXT_LENGTH)]
    /\ thrown = [j \in Jobs |-> "none"]
    /\ args = NoArgs
    /\ returned = <<>>

NextFire ==
    \/ \E j \in Jobs : JobFinish(j)
    \/ \E j \in Jobs : PostResponse(j)

SpecFire == InitFire /\ [][NextFire]_vars

-----------------------------------------------------------------------------
(* Specification of one callGemini invocation against every sequence of answers. *)

InitGemini ==
    /\ entities = <<>>
    /\ deleteIssued = {}
    /\ calls = <<>>
    /\ jobPc = [j \in Jobs |-> "absent"]
    /\ operations = [j \in Jobs |-> CreatesOnly(<<>>)]
    /\ unique = [j \in Jobs |-> <<>>]
    /\ concurrency = [j \in Jobs |-> CONCURRENCY]
    /\ launched = [j \in Jobs |-> 0]
    /\ results = [j \in Jobs |-> <<>>]
    /\ updates = [j \in Jobs |-> <<>>]
    /\ posts = [j \in Jobs |-> <<>>]
    /\ postStatus = [j \in Jobs |-> <<>>]
    /\ outputs = [j \in Jobs |-> <<>>]
    /\ gemini = GeminiStart
    /\ jobText = [j \in Jobs |-> IF jobPc[j] = "absent" THEN JsonUndefined ELSE JsonText(MIN_TEXT_LENGTH)]
    /\ thrown = [j \in Jobs |-> "none"]
    /\ args = NoArgs
    /\ returned = <<>>

NextGemini ==
    \/ GeminiFetch
    \/ GeminiRespond
    \/ GeminiWake

SpecGemini == InitGemini /\ [][NextGemini]_vars

-----------------------------------------------------------------------------
(* Specification of one whole job: processJob from its start, on targets whose   *)
(* text is absent or around the two limits, through callGemini and the batch.    *)

InitJob ==
    /\ entities \in {<<>>, PreExisting}
    /\ deleteIssued = {}
    /\ calls = <<>>
    /\ jobPc = [j \in Jobs |-> IF j = 1 THEN "new" ELSE "absent"]
    /\ operations = [j \in Jobs |-> CreatesOnly(<<>>)]
    /\ unique = [j \in Jobs |-> <<>>]
    /\ concurrency = [j \in Jobs |-> CONCURRENCY]
    /\ launched = [j \in Jobs |-> 0]
    /\ results = [j \in Jobs |-> <<>>]
    /\ updates = [j \in Jobs |-> <<>>]
    /\ posts = [j \in Jobs |-> <<>>]
    /\ postStatus = [j \in Jobs |-> <<>>]
    /\ outputs = [j \in Jobs |-> <<>>]
    /\ gemini = GeminiNotCalled
    /\ jobText = [j \in Jobs |-> JsonUndefined]
    /\ thrown = [j \in Jobs |-> "none"]
    /\ args = NoArgs
    /\ returned = <<>>

NextJob ==
    \/ \E j \in Jobs : JobFetch(j)
    \/ GeminiFetch
    \/ GeminiRespond
    \/ GeminiWake
    \/ \E j \in Jobs : JobGeminiFail(j)
    \/ \E j \in Jobs : JobParse(j)
    \/ Next

SpecJob == InitJob /\ [][NextJob]_vars

-----------------------------------------------------------------------------
(* Specification of the parse: processJob from the return of callGemini to the   *)
(* start of the batch, on contents built from well-formed and malformed ops.     *)

MaxOps == 3         \* elements in the operations array of one LLM answer

\* Elements of the operations array: accepted ops, ops that miss a required field or
\* carry one of the wrong type, a null, an op of no known variant.
ParseElements ==
    {PersonOp(<<"Q">>),
     JsonObject([op |-> JsonString("create"), label |-> JsonString(<<"q">>), entity_type |-> JsonString("place")]),
     JsonObject([op |-> JsonString("create"), label |-> JsonString(<<"p">>), entity_type |-> JsonString("person"),
                 description |-> JsonString("d"), properties |-> JsonString("x")]),
     JsonObject([op |-> JsonString("add_property"), entity |-> JsonString(<<"r">>), key |-> JsonString("k"),
                 value |-> JsonString("v")]),
     JsonObject([op |-> JsonString("add_property"), entity |-> JsonString(<<"Q">>), key |-> JsonString("k"),
                 value |-> JsonNumber]),
     JsonObject([op |-> JsonString("add_relationship"), subject |-> JsonString(<<"Q">>),
                 predicate |-> JsonString("hunts"), target |-> JsonString(<<"p">>),
                 description |-> JsonString("d"), quote_start |-> JsonString(<<"q">>),
                 quote_end |-> JsonString(<<"p">>)]),
     JsonObject([op |-> JsonString("add_relationship"), subject |-> JsonString(<<" ", "q", "!">>),
                 predicate |-> JsonString("fears"), target |-> JsonString(<<"r">>),
                 description |-> JsonString("d"), source_text |-> JsonString(<<"r">>)]),
     JsonObject([op |-> JsonString("add_relationship"), subject |-> JsonString(<<"p">>),
                 predicate |-> JsonString("hunts"), target |-> JsonString(<<"Q">>)]),
     JsonObject([op |-> JsonString("add_relationship"), subject |-> JsonString(<<"r">>),
                 predicate |-> JsonString("hunts"), target |-> JsonString(<<"Q">>),
                 description |-> JsonString("d"), quote_end |-> JsonNumber]),
     JsonNull,
     JsonObject([op |-> JsonString("merge"), label |-> JsonString(<<"Q">>)])}

\* What the content of the payload can be: no JSON, a scalar, an object without an
\* operations array, an array, an object with an operations array.
ParseContents ==
    {InvalidJson, ValidJson(JsonNumber), ValidJson(JsonNull),
     ValidJson(JsonObject([operations |-> JsonString("none")])),
     ValidJson(JsonObject([creates |-> JsonArray(<<PersonOp(<<"Q">>)>>)]))}
    \cup {ValidJson(JsonArray(items)) : items \in BoundedSeq(ParseElements, MaxOps)}
    \cup {ValidJson(JsonObject([operations |-> JsonArray(items)])) :
             items \in BoundedSeq(ParseElements, MaxOps)}

InitParse ==
    /\ entities = <<>>
    /\ deleteIssued = {}
    /\ calls = <<>>
    /\ jobPc = [j \in Jobs |-> IF j = 1 THEN "gemini" ELSE "absent"]
    /\ operations = [j \in Jobs |-> CreatesOnly(<<>>)]
    /\ unique = [j \in Jobs |-> <<>>]
    /\ concurrency = [j \in Jobs |-> CONCURRENCY]
    /\ launched = [j \in Jobs |-> 0]
    /\ results = [j \in Jobs |-> <<>>]
    /\ updates = [j \in Jobs |-> <<>>]
    /\ posts = [j \in Jobs |-> <<>>]
    /\ postStatus = [j \in Jobs |-> <<>>]
    /\ outputs = [j \in Jobs |-> <<>>]
    /\ \E content \in ParseContents : gemini = [GeminiReturned EXCEPT !.content = content]
    /\ jobText = [j \in Jobs |-> IF j = 1 THEN JsonText(MIN_TEXT_LENGTH) ELSE JsonUndefined]
    /\ thrown = [j \in Jobs |-> "none"]
    /\ args = NoArgs
    /\ returned = <<>>

NextParse ==
    \/ \E j \in Jobs : JobParse(j)
    \/ \E j \in Jobs : JobStart(j)

SpecParse == InitParse /\ [][NextParse]_vars

-----------------------------------------------------------------------------
(* Claims about the check-create protocol (specification Spec) *)

RaceLabel == <<"q">>
RaceType == "person"

\* The checkCreate invocations racing on (collection, "q", person).
RaceCalls ==
    {c \in CallIds : calls[c].normalizedLabel = RaceLabel /\ calls[c].type = RaceType}

RaceEntities ==
    {e \in EntityIds : entities[e].label = RaceLabel /\ entities[e].type = RaceType}

CreatedByRacers == RaceEntities \ {PreId}

Survivors == {e \in RaceEntities : ~entities[e].deleted}

\* Every job has started its batch and every racing call has returned.
AllReturned ==
    /\ \A j \in Jobs : jobPc[j] # "parsed"
    /\ \A c \in RaceCalls : calls[c].pc = "done"

StartedEmpty == PreId \notin EntityIds

\* C1: starting from a collection with no match, once all concurrent check_create
\* calls on the same (collection, type, normalized label) have returned, exactly one
\* entity with that label and type survives.
C1_ExactlyOneSurvivor ==
    (StartedEmpty /\ AllReturned) => Cardinality(Survivors) = 1

\* C2: among the concurrent check_create calls on the same (collection, type,
\* normalized label), at most one returns isNew = true.
C2_AtMostOneIsNew ==
    Cardinality({c \in RaceCalls : calls[c].pc = "done" /\ calls[c].result.isNew}) <= 1

\* C3: every id in the list processJob returned was created by a POST /entities of
\* that same job, and no DELETE has been issued for it by any job.
C3_HandoffCreatedNeverDeleted ==
    \A j \in Jobs :
        jobPc[j] = "done" =>
            \A id \in Range(outputs[j]) :
                /\ id \in EntityIds
                /\ JobOf(entities[id].creator) = j
                /\ id \notin deleteIssued

\* C3 witness: a job handed off an id although a race was lost and a DELETE issued.
C3_Witness ==
    \E j \in Jobs : jobPc[j] = "done" /\ outputs[j] # <<>> /\ deleteIssued # {}

IsLeast(e) ==
    \A o \in RaceEntities \ {e} :
        \/ entities[e].created_at < entities[o].created_at
        \/ entities[e].created_at = entities[o].created_at /\ e < o

C5_AtMostFiveCalls ==
    \A c \in CallIds : calls[c].apiCalls <= 5

\* C6: when Lookup-1 finds a matching entity, check_create returns {that id,
\* isNew = false} after exactly 1 API call: no create, no further lookup, no delete.
C6_LookupHitOneCall ==
    \A c \in CallIds :
        calls[c].answer1 # NoId =>
            /\ calls[c].pc = "done"
            /\ calls[c].result.entityId = calls[c].answer1
            /\ ~calls[c].result.isNew
            /\ calls[c].apiCalls = 1
            /\ calls[c].posted = NoId
            /\ calls[c].lookups = 0
            /\ calls[c].deletes = 0
            /\ \A e \in EntityIds : entities[e].creator # c

\* C6 witness: a call whose Lookup-1 found an entity that a concurrent job created.
C6_Witness ==
    \E c \in CallIds :
        /\ calls[c].answer1 # NoId
        /\ calls[c].answer1 # PreId
        /\ calls[c].pc = "done"

-----------------------------------------------------------------------------
(* Claims about the update builder *)

HasEdge(u, predicate, peer) ==
    \E k \in 1..Len(u.relationships_add) :
        /\ u.relationships_add[k].predicate = predicate
        /\ u.relationships_add[k].peer = peer
        /\ u.relationships_add[k].direction = "outgoing"

\* The updates buildUpdates produced: all but the synthetic chunk and collection updates.
IsBuilt(u) == u.entity_id \notin {SourceChunkId, CollectionId}
BuiltUpdates(j) == SelectSeq(updates[j], IsBuilt)

\* C7: every entity created during a job (check-create result with isNew = true) is the
\* subject of an outgoing extracted_from edge to the source chunk in the fired updates.
C7_CreatedHaveExtractedFrom ==
    \A j \in Jobs :
        jobPc[j] = "done" =>
            \A i \in 1..Len(results[j]) :
                results[j][i].isNew =>
                    \E k \in 1..Len(updates[j]) :
                        /\ updates[j][k].entity_id = results[j][i].entityId
                        /\ HasEdge(updates[j][k], "extracted_from", SourceChunkId)

JobLabelToId(j) == LabelToId(results[j])

ResolvedRels(j) ==
    SelectSeq(operations[j].relationships,
              LAMBDA r : /\ normalizeLabel(r.subject) \in DOMAIN JobLabelToId(j)
                         /\ normalizeLabel(r.target) \in DOMAIN JobLabelToId(j))

SubjectId(j, r) == JobLabelToId(j)[normalizeLabel(r.subject)]
TargetId(j, r) == JobLabelToId(j)[normalizeLabel(r.target)]

SubjectIds(j) == {SubjectId(j, ResolvedRels(j)[i]) : i \in 1..Len(ResolvedRels(j))}
TargetIds(j) == {TargetId(j, ResolvedRels(j)[i]) : i \in 1..Len(ResolvedRels(j))}
OrphanIds(j) == TargetIds(j) \ SubjectIds(j)

PropertyIds(j) ==
    {JobLabelToId(j)[normalizeLabel(operations[j].properties[i].entity)] :
        i \in {k \in 1..Len(operations[j].properties) :
                  normalizeLabel(operations[j].properties[k].entity) \in DOMAIN JobLabelToId(j)}}

TouchedIds(j) == PropertyIds(j) \cup SubjectIds(j) \cup OrphanIds(j)

\* C8: every AdditiveUpdate that buildUpdates produces (one per entity touched by a
\* property op, a relationship subject or an orphan target) contains an outgoing
\* extracted_from edge whose peer is the source chunk.
C8_EveryUpdateHasExtractedFrom ==
    \A j \in Jobs :
        jobPc[j] = "done" /\ Len(results[j]) > 0 =>
            /\ \A k \in 1..Len(BuiltUpdates(j)) :
                   HasEdge(BuiltUpdates(j)[k], "extracted_from", SourceChunkId)
            /\ \A id \in TouchedIds(j) :
                   \E k \in 1..Len(BuiltUpdates(j)) :
                       /\ BuiltUpdates(j)[k].entity_id = id
                       /\ HasEdge(BuiltUpdates(j)[k], "extracted_from", SourceChunkId)

\* C8 witness: a built batch with an update that only the orphan loop created.
C8_Witness ==
    \E j \in Jobs :
        /\ jobPc[j] = "done"
        /\ OrphanIds(j) \ PropertyIds(j) # {}
        /\ PropertyIds(j) # {}

ReferencedByEdges(u) ==
    SelectSeq(u.relationships_add, LAMBDA e : e.predicate = "referenced_by")

\* C9: every entity that is the target of some resolved relationship and never the
\* subject of one has at least one outgoing referenced_by edge in the built batch.
C9_OrphanHasReferencedBy ==
    \A j \in Jobs :
        jobPc[j] = "done" /\ Len(results[j]) > 0 =>
            \A id \in OrphanIds(j) :
                \E k \in 1..Len(BuiltUpdates(j)) :
                    /\ BuiltUpdates(j)[k].entity_id = id
                    /\ Len(ReferencedByEdges(BuiltUpdates(j)[k])) >= 1
                    /\ \A n \in 1..Len(ReferencedByEdges(BuiltUpdates(j)[k])) :
                           ReferencedByEdges(BuiltUpdates(j)[k])[n].direction = "outgoing"

\* C9 witness: a batch with an orphan target beside a target that is also a subject.
C9_Witness ==
    \E j \in Jobs :
        /\ jobPc[j] = "done"
        /\ OrphanIds(j) # {}
        /\ TargetIds(j) \cap SubjectIds(j) # {}

\* The resolved relationships whose target is the entity id, in input order.
RelsTo(j, id) == SelectSeq(ResolvedRels(j), LAMBDA r : TargetId(j, r) = id)

UpdateOf(j, id) ==
    BuiltUpdates(j)[CHOOSE k \in 1..Len(BuiltUpdates(j)) : BuiltUpdates(j)[k].entity_id = id]

\* C10 as stated: every orphan target gets exactly one referenced_by edge, pointing to
\* the subject of the first relationship that referenced it with that relationship's
\* predicate in context.
C10_Original ==
    \A j \in Jobs :
        jobPc[j] = "done" /\ Len(results[j]) > 0 =>
            \A id \in OrphanIds(j) :
                /\ Len(ReferencedByEdges(UpdateOf(j, id))) = 1
                /\ ReferencedByEdges(UpdateOf(j, id))[1].peer = SubjectId(j, RelsTo(j, id)[1])
                /\ ReferencedByEdges(UpdateOf(j, id))[1].properties.context
                       = RelsTo(j, id)[1].predicate

\* C10 amended: every orphan target gets one referenced_by edge per resolved
\* relationship that references it, in input order, each pointing to that
\* relationship's subject with its predicate in context; so the first edge belongs to
\* the first relationship that referenced the target, and entities that are subjects
\* get none.
C10_ReferencedByPerRelationship ==
    \A j \in Jobs :
        jobPc[j] = "done" /\ Len(results[j]) > 0 =>
            /\ \A id \in OrphanIds(j) :
                   /\ Len(ReferencedByEdges(UpdateOf(j, id))) = Len(RelsTo(j, id))
                   /\ \A n \in 1..Len(RelsTo(j, id)) :
                          /\ ReferencedByEdges(UpdateOf(j, id))[n].peer
                                 = SubjectId(j, RelsTo(j, id)[n])
                          /\ ReferencedByEdges(UpdateOf(j, id))[n].properties.context
                                 = RelsTo(j, id)[n].predicate
                          /\ ReferencedByEdges(UpdateOf(j, id))[n].peer_label
                                 = RelsTo(j, id)[n].subject
            /\ \A k \in 1..Len(BuiltUpdates(j)) :
                   BuiltUpdates(j)[k].entity_id \in SubjectIds(j) =>
                       Len(ReferencedByEdges(BuiltUpdates(j)[k])) = 0

\* C10 witness: an orphan target referenced by two relationships with different
\* subjects and predicates.
C10_Witness ==
    \E j \in Jobs :
        /\ jobPc[j] = "done"
        /\ \E id \in OrphanIds(j) :
               /\ Len(RelsTo(j, id)) >= 2
               /\ SubjectId(j, RelsTo(j, id)[1]) # SubjectId(j, RelsTo(j, id)[2])
               /\ RelsTo(j, id)[1].predicate # RelsTo(j, id)[2].predicate

HasQuoteMarkers(r) == r.quote_start # Undefined /\ r.quote_end # Undefined

\* What the claim expects in source_text: the extracted quote, nothing when there is none.
ExpectedSourceText(r) ==
    IF extractQuote(ChunkText, r.quote_start, r.quote_end) = Null
    THEN Undefined
    ELSE extractQuote(ChunkText, r.quote_start, r.quote_end)

\* The edges the builder emitted for relationship r on its subject.
EdgesOf(j, r) ==
    SelectSeq(UpdateOf(j, SubjectId(j, r)).relationships_add,
              LAMBDA e : e.predicate = r.predicate /\ e.peer = TargetId(j, r)
                         /\ e.peer_label = r.target)

\* C11: for every relationship op that carries quote markers, the source_text of the
\* edge the update builder emits equals extractQuote(chunk text, quote_start, quote_end).
C11_SourceTextIsExtractedQuote ==
    \A j \in Jobs :
        jobPc[j] = "done" /\ Len(results[j]) > 0 =>
            \A i \in 1..Len(ResolvedRels(j)) :
                HasQuoteMarkers(ResolvedRels(j)[i]) =>
                    \A k \in 1..Len(EdgesOf(j, ResolvedRels(j)[i])) :
                        EdgesOf(j, ResolvedRels(j)[i])[k].properties.source_text
                            = ExpectedSourceText(ResolvedRels(j)[i])

-----------------------------------------------------------------------------
(* Claims about the batch, the posts and the error paths *)

\* C12: within one job, every check_create of the batch has returned before the update
\* list is built and before any POST /updates/additive is issued.
C12_CreatesBeforeUpdates ==
    \A j \in Jobs :
        (updates[j] # <<>> \/ posts[j] # <<>>) =>
            /\ launched[j] = Len(unique[j])
            /\ Cardinality(CallsOf(j)) = Len(unique[j])
            /\ \A c \in CallsOf(j) : calls[c].pc = "done"
            /\ Len(results[j]) = Len(unique[j])

\* C12 witness: a job with two entities has posted its updates, and one of its
\* check_creates went through the create step.
C12_Witness ==
    \E j \in Jobs :
        /\ posts[j] # <<>>
        /\ Len(unique[j]) >= 2
        /\ \E c \in CallsOf(j) : calls[c].apiCalls >= 3

\* C13: processJob never waits for the answer to a POST /updates/additive: whenever
\* posts are out, answered or not, the job has returned its id list, and an error
\* result or a rejection of a post neither changes that list nor fails the job.
C13_PostsAreNotAwaited ==
    \A j \in Jobs :
        posts[j] # <<>> =>
            /\ jobPc[j] = "done"
            /\ outputs[j] = NewEntityIds(results[j])
            /\ Len(postStatus[j]) = Len(posts[j])

\* C13 witness: a job that returned ids has one post rejected, one answered with an
\* error and one still outstanding.
C13_Witness ==
    \E j \in Jobs :
        /\ jobPc[j] = "done"
        /\ outputs[j] # <<>>
        /\ \E a, b, c \in 1..Len(postStatus[j]) :
               /\ postStatus[j][a] = "rejected"
               /\ postStatus[j][b] = "error"
               /\ postStatus[j][c] = "pending"

RECURSIVE Flatten(_)
Flatten(batches) ==
    IF batches = <<>> THEN <<>> ELSE Head(batches) \o Flatten(Tail(batches))

\* C14: every POST /updates/additive carries at most 1000 updates, and the posted
\* batches are consecutive slices of the update list that together carry every update
\* exactly once.
C14_BatchesOfAtMost1000 ==
    \A j \in Jobs :
        jobPc[j] = "done" =>
            /\ \A b \in 1..Len(posts[j]) :
                   Len(posts[j][b]) >= 1 /\ Len(posts[j][b]) <= 1000
            /\ Flatten(posts[j]) = updates[j]

\* C14 witness: a list one over two full batches went out in three posts.
C14_Witness ==
    \E j \in Jobs :
        /\ jobPc[j] = "done"
        /\ Len(posts[j]) >= 3
        /\ Len(posts[j][1]) = 1000
        /\ Len(posts[j][Len(posts[j])]) = 1

\* C15: at every instant at most 20 check_create invocations started by one
\* batch_check_create call are in flight: never more than the ceiling its
\* runWithConcurrency was called with, and that ceiling is at most 20.
C15_AtMostCeilingInFlight ==
    \A j \in Jobs :
        /\ Cardinality(Executing(j)) <= concurrency[j]
        /\ concurrency[j] <= 20

\* C15 witness: more items than the ceiling; one has returned, the next was started
\* and the pool is full again.
C15_Witness ==
    \E j \in Jobs :
        /\ Len(unique[j]) > concurrency[j]
        /\ launched[j] > concurrency[j]
        /\ Cardinality(Executing(j)) = concurrency[j]

\* The input of batchCheckCreate of a job that has called it.
BatchInput(j) == EntitiesToCreate(operations[j])

CallKey(c) == <<calls[c].type, calls[c].normalizedLabel>>

\* C16: batch_check_create runs check_create exactly once per distinct
\* (type, normalize(label)) of its input, for the first input entry with that key;
\* later entries with the same key start no check_create.
C16_OneCallPerKey ==
    \A j \in Jobs :
        jobPc[j] \in {"batch", "built", "done", "failed"} =>
            /\ \A c, d \in CallsOf(j) : CallKey(c) = CallKey(d) => c = d
            /\ \A c \in CallsOf(j) :
                   \E i \in 1..Len(BatchInput(j)) :
                       /\ BatchInput(j)[i].label = calls[c].label
                       /\ BatchInput(j)[i].type = calls[c].type
                       /\ \A k \in 1..(i - 1) :
                              EntityKey(BatchInput(j)[k]) # EntityKey(BatchInput(j)[i])
            /\ launched[j] = Len(unique[j]) =>
                   \A i \in 1..Len(BatchInput(j)) :
                       \E c \in CallsOf(j) : CallKey(c) = EntityKey(BatchInput(j)[i])

\* C16 witness: a finished batch whose input spelled one entity in two ways.
C16_Witness ==
    \E j \in Jobs :
        /\ jobPc[j] = "done"
        /\ Len(BatchInput(j)) > Len(unique[j])
        /\ BatchInput(j)[1].label # BatchInput(j)[2].label

\* C17: if POST /entities fails for any entity of the batch, the job fails:
\* check_create throws, batch_check_create rejects, and processJob issues no
\* POST /updates/additive and hands off no id.
C17_CreateFailureFailsJob ==
    \A j \in Jobs :
        (\E c \in CallsOf(j) : calls[c].failure = "create") =>
            /\ \A c \in CallsOf(j) : calls[c].failure = "create" => calls[c].pc = "failed"
            /\ jobPc[j] = "failed" \/ (jobPc[j] = "batch" /\ Rejected(j))
            /\ updates[j] = <<>>
            /\ posts[j] = <<>>
            /\ outputs[j] = <<>>

\* C17 witness: a job failed on one create after another entity of its batch was
\* created.
C17_Witness ==
    \E j \in Jobs :
        /\ jobPc[j] = "failed"
        /\ \E c \in CallsOf(j) : calls[c].pc = "done" /\ calls[c].result.isNew

C20_AtMostFourRequests ==
    /\ gemini.requests <= 4
    /\ Len(gemini.history) <= gemini.requests

\* C20 witness: the call threw after four requests that met a timeout, a network
\* error, a 429 and a 5xx.
C20_Witness ==
    /\ gemini.pc = "thrown"
    /\ gemini.requests = 4
    /\ {"timeout", "network", "429", "500"} \subseteq Range(gemini.history)

-----------------------------------------------------------------------------
(* Claims about the retries of callGemini (specification SpecGemini) *)

\* 429, a status >= 500, a network error, the timeout.
Transient == {"429", "500", "network", "timeout"}

AllTransient(h) == \A i \in 1..Len(h) : h[i] \in Transient

\* C21: when the first k attempts (0 <= k <= 3) of a call meet a transient condition
\* and the next one answers a valid payload, the call returns after exactly k + 1
\* HTTP requests; after k < 4 transient attempts the call has not failed; after 4
\* transient attempts in a row it has issued 4 requests and issues no other.
C21_TransientRetriedUpToThreeTimes ==
    LET h == gemini.history
        n == Len(h)
    IN /\ (n >= 1 /\ h[n] = "ok" /\ AllTransient(SubSeq(h, 1, n - 1)))
              => gemini.pc = "returned" /\ gemini.requests = n /\ n <= 4
       /\ (n < 4 /\ AllTransient(h))
              => gemini.pc \in {"attempt", "fetching", "sleeping"}
                 /\ gemini.requests \in {n, n + 1}
       /\ (n = 4 /\ AllTransient(h))
              => gemini.pc \in {"attempt", "thrown"} /\ gemini.requests = 4
                 /\ gemini.attempt = 4

\* Three transient attempts, of which one a network error or a timeout, then a
\* valid payload: the call has returned.
C21_Witness ==
    /\ gemini.pc = "returned"
    /\ Len(gemini.history) = 4
    /\ AllTransient(SubSeq(gemini.history, 1, 3))
    /\ \E i \in 1..3 : gemini.history[i] \in {"network", "timeout"}
    /\ gemini.history[4] = "ok"

\* Four transient attempts in a row: the call has failed.
FailedAfterFourTransient ==
    gemini.pc = "thrown" /\ Len(gemini.history) = 4 /\ AllTransient(gemini.history)

\* C22: once the provider has answered with a non-retryable status (a 4xx other
\* than 429), the call issues no further HTTP request: that answer is the last of
\* the call, and the call fails with it.
C22_NonRetryableStatusIsFatal ==
    \A i \in 1..Len(gemini.history) :
        gemini.history[i] = "400"
            => /\ i = Len(gemini.history)
               /\ gemini.requests = i
               /\ gemini.pc \in {"attempt", "thrown"}
               /\ gemini.lastError = "400"

\* C23: the sleep that follows the failed attempt number a (0-based) lasts
\* min(15 s * 2^a, 120 s), that is 15 s, 30 s, 60 s for a = 0, 1, 2; every failed
\* attempt before the last one is followed by a sleep and the last one by none.
C23_BackoffDoubles ==
    LET failed == IF gemini.pc = "returned" THEN Len(gemini.history) - 1
                  ELSE Len(gemini.history)
    IN /\ Len(gemini.slept) = Min(failed, 3)
       /\ \A i \in 1..Len(gemini.slept) :
             /\ gemini.slept[i] = <<15000, 30000, 60000>>[i]
             /\ gemini.slept[i] = Min(15000 * (2 ^ (i - 1)), 120000)
       /\ gemini.pc = "sleeping" => gemini.attempt < 3

\* The call has slept three times and failed its fourth attempt.
C23_Witness ==
    /\ Len(gemini.slept) = 3
    /\ Len(gemini.history) = 4
    /\ gemini.history[4] # "ok"
    /\ gemini.pc = "thrown"

-----------------------------------------------------------------------------
(* Claims about the input checks of processJob (specification SpecJob) *)

\* Job j threw on the text of its target.
TextRejected(j) == thrown[j] \in {"no_text", "too_large"}

\* Job j fetched its target, so that fetchTextContent ran.
TextFetched(j) == jobPc[j] \notin {"new", "absent"} /\ thrown[j] \notin {"no_target", "fetch_failed"}

\* C24: a job whose text is missing, too short or oversize has failed without any
\* LLM call and without any graph write: callGemini was never entered, no HTTP
\* request went to the LLM, the job made no check_create call, created no entity,
\* posted no update and returned nothing.
C24_BadTextFailsBeforeAnyCall ==
    \A j \in Jobs :
        TextRejected(j)
            => /\ jobPc[j] = "failed"
               /\ gemini.pc = "none"
               /\ gemini.requests = 0
               /\ CallsOf(j) = {}
               /\ \A id \in EntityIds : JobOf(entities[id].creator) # j
               /\ posts[j] = <<>>
               /\ outputs[j] = <<>>

\* A job failed on an oversize text.
C24_Witness ==
    /\ jobPc[1] = "failed"
    /\ thrown[1] = "too_large"
    /\ jobText[1] = JsonText(512001)

\* C25: processJob rejects the target exactly when its text is absent, shorter than
\* 50 characters or longer than 512000: 49 is rejected, 50 and 512000 are accepted,
\* 512001 is rejected.
C25_TextLimits ==
    \A j \in Jobs :
        TextFetched(j)
            => LET t == jobText[j]
                   absent == t.type # "string"
               IN /\ TextRejected(j) <=> (absent \/ t.length < 50 \/ t.length > 512000)
                  /\ t = JsonText(49) => TextRejected(j)
                  /\ t = JsonText(50) => ~TextRejected(j)
                  /\ t = JsonText(512000) => ~TextRejected(j)
                  /\ t = JsonText(512001) => TextRejected(j)

\* A text of exactly 512000 characters was accepted and its prompt sent to the LLM.
C25_Witness ==
    /\ jobText[1] = JsonText(512000)
    /\ thrown[1] = "none"
    /\ gemini.requests >= 1

-----------------------------------------------------------------------------
(* Claims about the parse and the auto-create loop (specification SpecParse) *)

\* What parseOperations makes of the content callGemini returned.
Parsed == parseOperations(gemini.content)

\* Job j is past the auto-create loop.
Prepared(j) == jobPc[j] \in {"batch", "built", "done"} \/ thrown[j] = "check_create"

\* C26: when the parsed content holds no create op and no property or relationship
\* op, the job is done without error, with an empty output list and without any
\* check_create call.
C26_EmptyExtractionReturnsEmpty ==
    \A j \in Jobs :
        (/\ jobPc[j] \notin {"new", "gemini", "parsed", "absent"}
         /\ Parsed.error = "none"
         /\ Parsed.creates = <<>> /\ Parsed.properties = <<>> /\ Parsed.relationships = <<>>)
            => /\ jobPc[j] = "done"
               /\ thrown[j] = "none"
               /\ outputs[j] = <<>>
               /\ CallsOf(j) = {}

\* The content held elements, none of them an operation, and the job is done.
C26_Witness ==
    /\ jobPc[1] = "done"
    /\ gemini.content.valid
    /\ gemini.content.value.type = "array"
    /\ Len(gemini.content.value.items) >= 2
    /\ outputs[1] = <<>>

\* The normalized labels the property and relationship ops mention.
Mentioned(ops) ==
    {normalizeLabel(ops.properties[i].entity) : i \in 1..Len(ops.properties)}
    \cup {normalizeLabel(ops.relationships[i].subject) : i \in 1..Len(ops.relationships)}
    \cup {normalizeLabel(ops.relationships[i].target) : i \in 1..Len(ops.relationships)}

\* C27: past the auto-create loop the creates are the explicit creates, followed by
\* exactly one create {label: normalized, entity_type: "entity"} for every distinct
\* normalized label that a property or relationship op mentions and no explicit
\* create spells, and by nothing else.
C27_OneGenericCreatePerMissingLabel ==
    \A j \in Jobs :
        (Prepared(j) /\ Parsed.error = "none")
            => LET explicit == Parsed.creates
                   all == operations[j].creates
                   appended == SubSeq(all, Len(explicit) + 1, Len(all))
                   declared == {normalizeLabel(explicit[i].label) : i \in 1..Len(explicit)}
                   missing == Mentioned(Parsed) \ declared
               IN /\ Len(all) >= Len(explicit)
                  /\ SubSeq(all, 1, Len(explicit)) = explicit
                  /\ \A i \in 1..Len(appended) :
                        appended[i].entity_type = "entity" /\ appended[i].label \in missing
                  /\ \A l \in missing :
                        Cardinality({i \in 1..Len(appended) : appended[i].label = l}) = 1

\* An explicit create "Q", a relationship from " q!" to "r": one generic create, for
\* "r", and none for the other spelling of "q".
C27_Witness ==
    /\ jobPc[1] = "batch"
    /\ Len(operations[1].creates) = 2
    /\ operations[1].creates[1].label = <<"Q">>
    /\ operations[1].creates[2] = [label |-> <<"r">>, entity_type |-> "entity"]
    /\ Len(operations[1].relationships) = 1
    /\ operations[1].relationships[1].subject = <<" ", "q", "!">>

\* The operations array of a content, if it has one.
HasOperations(content) ==
    /\ content.valid
    /\ \/ content.value.type = "array"
       \/ content.value.type = "object" /\ Field(content.value, "operations").type = "array"

OperationsOf(content) ==
    IF content.value.type = "array" THEN content.value.items
    ELSE Field(content.value, "operations").items

Accepted(op) == isCreateOp(op) \/ isAddPropertyOp(op) \/ isAddRelationshipOp(op)

\* C30: the parse fails exactly when the content is no valid JSON or is neither an
\* array nor an object with an operations array; otherwise every element that
\* matches a variant is kept, in input order, in the list of its variant, and every
\* other element is dropped.
C30_ParseFailsOnlyOnShape ==
    \A j \in Jobs :
        jobPc[j] \notin {"new", "gemini", "absent"}
            => /\ thrown[j] = "parse" <=> ~HasOperations(gemini.content)
               /\ jobPc[j] = "parsed"
                     => LET items == OperationsOf(gemini.content)
                            creates == SelectSeq(items, isCreateOp)
                            properties == SelectSeq(items, isAddPropertyOp)
                            relationships == SelectSeq(items, isAddRelationshipOp)
                            ops == operations[j]
                        IN /\ ops.creates = [i \in 1..Len(creates) |-> CreateOp(creates[i])]
                           /\ ops.properties =
                                 [i \in 1..Len(properties) |-> AddPropertyOp(properties[i])]
                           /\ ops.relationships =
                                 [i \in 1..Len(relationships) |->
                                     AddRelationshipOp(relationships[i])]
                           /\ Len(ops.creates) + Len(ops.properties) + Len(ops.relationships)
                                 = Cardinality({i \in 1..Len(items) : Accepted(items[i])})

\* A content of three elements, the first a null and the last two relationships in
\* an order that the parse kept.
C30_Witness ==
    /\ jobPc[1] = "parsed"
    /\ HasOperations(gemini.content)
    /\ Len(OperationsOf(gemini.content)) = 3
    /\ OperationsOf(gemini.content)[1] = JsonNull
    /\ Len(operations[1].relationships) = 2
    /\ operations[1].relationships[1].predicate = "fears"
    /\ operations[1].relationships[2].predicate = "hunts"

-----------------------------------------------------------------------------
(* Claims about the source backlinks (SpecBuild) and the stored label (Spec) *)

\* The updates of job j on the source chunk.
ChunkUpdates(j) == {i \in 1..Len(updates[j]) : updates[j][i].entity_id = SourceChunkId}

C29_StoredLabelIsNormalized ==
    \A c \in CallIds :
        LET normalized == normalizeLabel(calls[c].label) IN
        /\ calls[c].normalizedLabel = normalized
        /\ \A id \in EntityIds :
              entities[id].creator = c => entities[id].label = normalized
        /\ calls[c].pc = "done" => calls[c].result.label = normalized

\* A call for the label " q!" has created the entity "q" and returned it as new.
C29_Witness ==
    \E c \in CallIds :
        /\ calls[c].label = <<" ", "q", "!">>
        /\ calls[c].pc = "done"
        /\ calls[c].result.isNew
        /\ calls[c].result.label = <<"q">>
        /\ entities[calls[c].result.entityId].creator = c
        /\ entities[calls[c].result.entityId].label = <<"q">>

-----------------------------------------------------------------------------
(* normalizeLabel as a function of its argument alone (specification
   SpecNormalize) and extractQuote likewise (specification SpecQuote): the initial
   state draws the arguments, the action applies the function. *)

MaxLabelLen == 3     \* characters in a label given to normalizeLabel
MaxTextLen == 3      \* characters in a short text given to extractQuote
MaxMarkerLen == 2    \* characters in a quote marker

\* No job runs while a pure function is under study.
NoJobs ==
    /\ entities = <<>>
    /\ deleteIssued = {}
    /\ calls = <<>>
    /\ jobPc = [j \in Jobs |-> "absent"]
    /\ operations = [j \in Jobs |-> CreatesOnly(<<>>)]
    /\ unique = [j \in Jobs |-> <<>>]
    /\ concurrency = [j \in Jobs |-> CONCURRENCY]
    /\ launched = [j \in Jobs |-> 0]
    /\ results = [j \in Jobs |-> <<>>]
    /\ updates = [j \in Jobs |-> <<>>]
    /\ posts = [j \in Jobs |-> <<>>]
    /\ postStatus = [j \in Jobs |-> <<>>]
    /\ outputs = [j \in Jobs |-> <<>>]
    /\ gemini = GeminiNotCalled
    /\ jobText = [j \in Jobs |-> JsonUndefined]
    /\ thrown = [j \in Jobs |-> "none"]

JobsUntouched ==
    UNCHANGED <<entities, deleteIssued, calls, jobPc, operations, unique, concurrency,
                launched, results, updates, posts, postStatus, outputs, gemini, jobText,
                thrown>>

\* Upper and lower case, both kinds of whitespace, punctuation the chain removes
\* and the hyphen it keeps.
LabelChars == {"Q", "q", " ", "\t", "!", "-"}

InitNormalize ==
    /\ NoJobs
    /\ \E label \in BoundedSeq(LabelChars, MaxLabelLen) :
          args = [function |-> "normalizeLabel", label |-> label]
    /\ returned = <<>>

\* normalizeLabel(label), and then normalizeLabel of what that call returned.
Normalize ==
    /\ args.function = "normalizeLabel"
    /\ Len(returned) < 2
    /\ returned' = Append(returned,
                          normalizeLabel(IF returned = <<>> THEN args.label
                                         ELSE returned[Len(returned)]))
    /\ UNCHANGED args
    /\ JobsUntouched

NextNormalize == Normalize

SpecNormalize == InitNormalize /\ [][NextNormalize]_vars

TextChars == {"Q", "p", " "}
MarkerChars == {"q", "p", " "}

\* A text whose span from its first to its last character has n characters: "Q",
\* then "p" n - 2 times, then "r".
LongText(n) == [i \in 1..n |-> IF i = 1 THEN "Q" ELSE IF i = n THEN "r" ELSE "p"]

\* Spans just under, at and just over the limit, with the markers "q" and "r".
LongQuoteArgs ==
    {[function |-> "extractQuote", text |-> LongText(n), quoteStart |-> <<"q">>,
      quoteEnd |-> <<"r">>] : n \in (MAX_QUOTE_LENGTH - 1)..(MAX_QUOTE_LENGTH + 1)}

ShortQuoteArgs ==
    {[function |-> "extractQuote", text |-> text, quoteStart |-> quoteStart,
      quoteEnd |-> quoteEnd] :
        text \in BoundedSeq(TextChars, MaxTextLen),
        quoteStart \in BoundedSeq(MarkerChars, MaxMarkerLen) \cup {Undefined},
        quoteEnd \in BoundedSeq(MarkerChars, MaxMarkerLen) \cup {Undefined}}

InitQuote ==
    /\ NoJobs
    /\ args \in ShortQuoteArgs \cup LongQuoteArgs
    /\ returned = <<>>

\* extractQuote(text, quoteStart, quoteEnd)
ExtractQuote ==
    /\ args.function = "extractQuote"
    /\ returned = <<>>
    /\ returned' = <<extractQuote(args.text, args.quoteStart, args.quoteEnd)>>
    /\ UNCHANGED args
    /\ JobsUntouched

NextQuote == ExtractQuote

SpecQuote == InitQuote /\ [][NextQuote]_vars

-----------------------------------------------------------------------------
(* Specification of one batch to its end (SpecBatch): one job with creates and a
   relationship, under either ceiling, from the call of batchCheckCreate until it
   resolves or rejects, where every request is answered and every continuation
   runs. *)

\* Parsed operations: a create and a relationship whose target has no create; one
\* normalized label under two types, named by a relationship; one entity spelled
\* in two ways; a relationship alone.
BatchInputs ==
    {[creates |-> <<[label |-> <<"Q">>, entity_type |-> "person"]>>,
      properties |-> <<>>,
      relationships |-> <<RelOp(<<"Q">>, "hunts", <<"p">>, Undefined, <<"q">>, <<"p">>)>>],
     [creates |-> <<[label |-> <<"Q">>, entity_type |-> "person"],
                    [label |-> <<"q">>, entity_type |-> "place"]>>,
      properties |-> <<>>,
      relationships |-> <<RelOp(<<"q">>, "knows", <<"Q", "!">>, Undefined, Undefined,
                                Undefined)>>],
     [creates |-> <<[label |-> <<"Q">>, entity_type |-> "person"],
                    [label |-> <<" ", "q", "!">>, entity_type |-> "person"]>>,
      properties |-> <<>>,
      relationships |-> <<>>],
     [creates |-> <<>>,
      properties |-> <<>>,
      relationships |-> <<RelOp(<<"r">>, "fears", <<"p">>, <<"r", " ", "p">>, Undefined,
                                Undefined)>>]}

\* The operations after the auto-create loop.
BatchChoices == {AutoCreate(ops) : ops \in BatchInputs}

\* processJob has called batchCheckCreate and runWithConcurrency stands at its
\* first await.
InitBatch ==
    /\ entities \in {<<>>, PreExisting}
    /\ deleteIssued = {}
    /\ jobPc = [j \in Jobs |-> IF j = 1 THEN "batch" ELSE "absent"]
    /\ \E ops \in BatchChoices :
       \E ceiling \in PoolCeilings :
          LET uniq == dedupeByLabelType(EntitiesToCreate(ops))
              n == InitialLaunch(Len(uniq), ceiling)
          IN /\ operations = [j \in Jobs |-> IF j = 1 THEN ops ELSE CreatesOnly(<<>>)]
             /\ unique = [j \in Jobs |-> IF j = 1 THEN uniq ELSE <<>>]
             /\ concurrency = [j \in Jobs |-> ceiling]
             /\ launched = [j \in Jobs |-> IF j = 1 THEN n ELSE 0]
             /\ calls = [c \in {<<1, i>> : i \in 1..n} |-> NewCall(uniq[c[2]])]
    /\ results = [j \in Jobs |-> <<>>]
    /\ updates = [j \in Jobs |-> <<>>]
    /\ posts = [j \in Jobs |-> <<>>]
    /\ postStatus = [j \in Jobs |-> <<>>]
    /\ outputs = [j \in Jobs |-> <<>>]
    /\ gemini = GeminiReturned
    /\ jobText = [j \in Jobs |-> IF j = 1 THEN JsonText(MIN_TEXT_LENGTH) ELSE JsonUndefined]
    /\ thrown = [j \in Jobs |-> "none"]
    /\ args = NoArgs
    /\ returned = <<>>

NextBatch ==
    \/ \E c \in CallIds : Lookup1(c)
    \/ \E c \in CallIds : CreateRequest(c)
    \/ \E c \in CallIds : CreateResponse(c)
    \/ \E c \in CallIds : LookupN(c)
    \/ \E c \in CallIds : DeleteOwn(c)
    \/ \E j \in Jobs : JobFail(j)

\* Every request gets its response and the event loop runs every continuation that
\* is ready: a step that can be taken is taken.
SpecBatch == InitBatch /\ [][NextBatch]_vars /\ WF_vars(NextBatch)

-----------------------------------------------------------------------------
(* Claim about ops without a description (specification SpecParse) *)

\* A create op of the minimal shape that has no description (and no properties).
BareCreate(op) ==
    /\ IsObject(op)
    /\ HasOp(op, "create")
    /\ IsStringField(op, "label")
    /\ IsStringField(op, "entity_type")
    /\ Field(op, "description").type = "undefined"
    /\ Field(op, "properties").type = "undefined"

\* An add_relationship op of the minimal shape that has no description (and no
\* quote markers).
BareRelationship(op) ==
    /\ IsObject(op)
    /\ HasOp(op, "add_relationship")
    /\ IsStringField(op, "subject")
    /\ IsStringField(op, "predicate")
    /\ IsStringField(op, "target")
    /\ Field(op, "description").type = "undefined"
    /\ Field(op, "quote_start").type = "undefined"
    /\ Field(op, "quote_end").type = "undefined"

\* C31: the parse keeps every create op and every add_relationship op that has the
\* minimal shape and no description: its label, respectively its subject,
\* predicate and target, are among the parsed creates, respectively relationships.
C31_MinimalShapeIsKept ==
    \A j \in Jobs :
        (jobPc[j] = "parsed" /\ HasOperations(gemini.content))
            => LET items == OperationsOf(gemini.content)
                   ops == operations[j]
               IN \A i \in 1..Len(items) :
                     /\ BareCreate(items[i])
                           => \E k \in 1..Len(ops.creates) :
                                 /\ ops.creates[k].label = Field(items[i], "label").value
                                 /\ ops.creates[k].entity_type
                                       = Field(items[i], "entity_type").value
                     /\ BareRelationship(items[i])
                           => \E k \in 1..Len(ops.relationships) :
                                 /\ ops.relationships[k].subject
                                       = Field(items[i], "subject").value
                                 /\ ops.relationships[k].predicate
                                       = Field(items[i], "predicate").value
                                 /\ ops.relationships[k].target
                                       = Field(items[i], "target").value

-----------------------------------------------------------------------------
(* Claim about normalizeLabel (specification SpecNormalize) *)

\* C32: normalizing a label that is already normalized changes nothing: the second
\* call, given what the first returned, returns the same string.
C32_NormalizeIsIdempotent ==
    (args.function = "normalizeLabel" /\ Len(returned) = 2) => returned[2] = returned[1]

\* Both calls were made on a label that the first call changed in every way it
\* can: case, punctuation, and whitespace at an end left by the punctuation.
C32_Witness ==
    /\ args.function = "normalizeLabel"
    /\ Len(returned) = 2
    /\ args.label = <<"Q", " ", "!">>
    /\ returned[1] = <<"q">>

-----------------------------------------------------------------------------
(* Claims about extractQuote (specification SpecQuote) *)

\* needle is a run of consecutive characters of hay.
Occurs(needle, hay) ==
    \E i \in 0..(Len(hay) - Len(needle)) : SubSeq(hay, i + 1, i + Len(needle)) = needle

\* quote holds the marker, whatever the case and the whitespace of either.
ContainsMarker(quote, marker) ==
    Occurs(ToLowerCase(normalizeWhitespace(marker)), ToLowerCase(quote))

Quoted == args.function = "extractQuote" /\ returned # <<>>

\* C33: a quote that extractQuote returns occurs in the text, once the whitespace
\* of the text is normalized, and holds the start marker and the end marker.
C33_QuoteHoldsBothMarkers ==
    (Quoted /\ returned[1] # Null)
        => /\ Occurs(returned[1], normalizeWhitespace(args.text))
           /\ ContainsMarker(returned[1], args.quoteStart)
           /\ ContainsMarker(returned[1], args.quoteEnd)

\* The slice of the text from the first start marker to the end of the first end
\* marker at or after it, taken when both are found.
SpanFound ==
    /\ findPhrase(args.text, args.quoteStart).found
    /\ findPhrase(SubSeq(args.text, findPhrase(args.text, args.quoteStart).start + 1,
                         Len(args.text)), args.quoteEnd).found

SpanLength ==
    findPhrase(SubSeq(args.text, findPhrase(args.text, args.quoteStart).start + 1,
                      Len(args.text)), args.quoteEnd).end

\* C34: extractQuote returns null when a marker is empty or undefined, when the text
\* is empty, when a marker is not found in the text and when the span has more than
\* 500 characters; it returns the quote when the span has exactly 500.
C34_NullCasesAndLimit ==
    Quoted
        => /\ (\/ args.quoteStart \in {Undefined, <<>>}
               \/ args.quoteEnd \in {Undefined, <<>>}
               \/ args.text = <<>>
               \/ ~findPhrase(args.text, args.quoteStart).found
               \/ ~findPhrase(args.text, args.quoteEnd).found
               \/ (SpanFound /\ SpanLength > 500))
                 => returned[1] = Null
           /\ (/\ args.quoteStart \notin {Undefined, <<>>}
               /\ args.quoteEnd \notin {Undefined, <<>>}
               /\ SpanFound
               /\ SpanLength = 500)
                 => returned[1] = normalizeWhitespace(SubSeq(args.text,
                                      findPhrase(args.text, args.quoteStart).start + 1,
                                      findPhrase(args.text, args.quoteStart).start + 500))

\* A span of exactly 500 characters was returned.
C34_Witness ==
    /\ Quoted
    /\ Len(args.text) = 500
    /\ returned[1] = args.text

\* A span of 501 characters was refused.
C34_WitnessOver ==
    /\ Quoted
    /\ Len(args.text) = 501
    /\ returned[1] = Null

-----------------------------------------------------------------------------
(* Claims about the steps of one checkCreate (specification Spec) *)

\* The call has created its entity and its Lookup-N loop has ended.
LoopEnded(c) == calls[c].created # NoId /\ calls[c].pc \in {"delete", "done", "failed"}

\* C35: after its create a call issues Lookup-N at least once and at most 3 times.
\* It repeats the lookup only when the one before returned exactly one entity, its
\* own; it has slept before each lookup, and any other result ends the loop.
C35_LookupNOneToThreeTimes ==
    \A c \in DOMAIN calls :
       LET call == calls[c] IN
          /\ call.lookups <= 3
          /\ call.created = NoId => call.lookups = 0
          /\ (call.pc = "lookupN" /\ call.lookups >= 1)
                => call.onlyOwn
          /\ call.pc = "lookupN" => Len(call.slept) = call.lookups + 1
          /\ \A i \in 2..Len(call.slept) : call.slept[i] = 150
          /\ LoopEnded(c)
                => /\ call.lookups >= 1
                   /\ Len(call.slept) = call.lookups
                   /\ call.lookups < 3 => ~call.onlyOwn

\* A call looked three times: it saw only its own entity the first two times, slept
\* before each lookup, and the third result ended the loop.
C35_Witness ==
    \E c \in DOMAIN calls :
       /\ LoopEnded(c)
       /\ calls[c].lookups = 3
       /\ calls[c].slept = <<100, 150, 150>>
       /\ ~calls[c].onlyOwn

\* A call whose first Lookup-N showed that it lost the race looked once.
C35_WitnessOnce ==
    \E c \in DOMAIN calls :
       /\ LoopEnded(c)
       /\ calls[c].lookups = 1
       /\ ~calls[c].onlyOwn
       /\ calls[c].pc = "delete"

\* C36: the entity a checkCreate returned, as new or as found, is one for which no
\* checkCreate running on the same (type, normalized label) has issued a DELETE.
C36_ReturnedIsNeverDeleted ==
    \A c \in DOMAIN calls :
        calls[c].pc = "done" => calls[c].result.entityId \notin deleteIssued

\* C37: a DELETE that a call issues targets the entity that this call created, and
\* a call issues at most one DELETE.
C37_DeletesOnlyOwnOnce ==
    /\ \A c \in DOMAIN calls : calls[c].deletes <= 1
    /\ \A id \in deleteIssued :
          /\ id \in EntityIds
          /\ entities[id].creator \in DOMAIN calls
          /\ calls[entities[id].creator].created = id
          /\ calls[entities[id].creator].deletes = 1
    /\ Cardinality(deleteIssued) = Cardinality({c \in DOMAIN calls : calls[c].deletes = 1})

\* A call has deleted the entity it created and returned the winner.
C37_Witness ==
    \E c \in DOMAIN calls :
       /\ calls[c].pc = "done"
       /\ calls[c].deletes = 1
       /\ calls[c].created \in deleteIssued
       /\ calls[c].result.entityId # calls[c].created

-----------------------------------------------------------------------------
(* Claims about the batch as a whole (specification SpecPool) *)

\* The results of job j in every order its subtasks can complete in.
CompletionOrders(j) ==
    {[i \in 1..Len(results[j]) |-> results[j][p[i]]] : p \in Perms(1..Len(results[j]))}

\* C38: the id that a normalized label has in the label map of a job is the same
\* whatever the order in which the check_create subtasks of its batch completed,
\* also when the batch holds that normalized label under two types.
C38_LabelMapIgnoresCompletionOrder ==
    \A j \in Jobs :
        (jobPc[j] = "batch" /\ BatchResolved(j))
            => \A res \in CompletionOrders(j) : LabelToId(res) = LabelToId(results[j])

\* C39: once a checkCreate of the batch has thrown, so that batchCheckCreate has
\* rejected, no call of that job issues a further graph API request.
C39_NoRequestAfterRejection ==
    [][\A j \in Jobs :
          Rejected(j) => \A c \in CallsOf(j) : calls'[c].apiCalls = calls[c].apiCalls]_vars

-----------------------------------------------------------------------------
(* Claim about the end of the batch (specification SpecBatch) *)

NoCreateFailure == \A j \in Jobs : ~Rejected(j)

\* The distinct (type, normalized label) of the creates of job j.
CreateKeys(j) ==
    {EntityKey(EntitiesToCreate(operations[j])[i]) : i \in 1..Len(operations[j].creates)}

ResultKeys(j) == {<<results[j][i].type, results[j][i].label>> : i \in 1..Len(results[j])}

\* The updates buildUpdates produces from the results of job j.
UpdatesOf(j) == buildUpdates(operations[j], JobLabelToId(j))

\* The edges of the relationship ops in these updates.
BuiltRelationshipEdges(j) ==
    {<<k, i>> \in (1..Len(UpdatesOf(j))) \X (1..(2 * MaxRels + 2)) :
        /\ i <= Len(UpdatesOf(j)[k].relationships_add)
        /\ UpdatesOf(j)[k].relationships_add[i].predicate
              \notin {"extracted_from", "referenced_by"}}

\* batchCheckCreate has returned: one result per key, every label of a relationship
\* op has an id, and buildUpdates makes an edge of every relationship op.
BatchComplete(j) ==
    /\ jobPc[j] = "batch"
    /\ BatchResolved(j)
    /\ Len(results[j]) = Cardinality(CreateKeys(j))
    /\ ResultKeys(j) = CreateKeys(j)
    /\ \A i \in 1..Len(operations[j].relationships) :
          ResolvedRel(JobLabelToId(j), operations[j].relationships[i])
    /\ Cardinality(BuiltRelationshipEdges(j)) = Len(operations[j].relationships)

\* C40: when no create fails and every graph API call returns, batchCheckCreate
\* terminates with exactly one result per distinct (type, normalized label); every
\* label a relationship op names then has an id and buildUpdates skips none.
C40_BatchTerminatesComplete ==
    ([]NoCreateFailure) => <>(\A j \in Jobs : jobPc[j] # "absent" => BatchComplete(j))

\* A job under the ceiling of one item has got the results of a batch of two
\* entities with a relationship op, and a lost race was resolved on the way.
C40_Witness ==
    \E j \in Jobs :
       /\ BatchComplete(j)
       /\ concurrency[j] = 1
       /\ Len(results[j]) = 2
       /\ Len(operations[j].relationships) = 1
       /\ deleteIssued # {}

====
